---- MODULE Spec2Model ----
(***************************************************************************)
(* A state-machine model of the two-pass assembler (jajabingi/assembler).  *)
(*                                                                         *)
(* One invocation of the program is modelled: main() walks the stems of    *)
(* the command line; for each stem it runs process_macros, then first_pass *)
(* (which calls second_pass itself when it saw no error), then the         *)
(* per-file teardown.  Every translation unit of the program owns a        *)
(* `static diag g_diag`; the model keeps one counter per translation unit. *)
(*                                                                         *)
(* A source line is modelled by the result of its lexical analysis (label  *)
(* token, statement keyword, operand tokens, directive tokens); the        *)
(* handlers are translated on top of that.                                 *)
(***************************************************************************)
EXTENDS Integers, Sequences, FiniteSets, TLC

(***************************************************************************)
(* Bounds of the model.                                                    *)
(***************************************************************************)
MaxStems == 2     \* stems on the command line (argc - 1)
MaxLines == 3     \* lines of one <stem>.am
MaxInstrLines == 1    \* lines of a <stem>.am that holds one instruction
MaxAsLines == 4   \* lines of one <stem>.as

(***************************************************************************)
(* Program constants.                                                      *)
(***************************************************************************)
IC_INIT_VALUE  == 100
OB_SUM_LIMIT   == 255
OB_WORD_LIMIT  == 255
MACRO_NAME_MAX == 31
MAX_SOURCE_LINES == 10000
MAX_LINE_LEN   == 81
MAX_LABEL_LEN  == 31
LONG_MAX_L     == 100
DATA_MIN       == -128
DATA_MAX       == 127
IMM8_MIN       == -128
IMM8_MAX       == 127
PAYLOAD8_MASK  == 255
WORD10_MASK    == 1023
WORD10_DIGITS  == 5
OB_ADDR_WIDTH_DEFAULT == 4
EXT_ENT_ADDR_WIDTH    == 4

ARE_ABS == 0
ARE_EXT == 1
ARE_REL == 2

ADDR_IMMEDIATE == 0
ADDR_DIRECT    == 1
ADDR_MATRIX    == 2
ADDR_REGISTER  == 3
ADDR_NONE      == -1

BITS_IMMEDIATE == 0
BITS_DIRECT    == 1
BITS_MATRIX    == 2
BITS_REGISTER  == 3

OPS_ZERO == 0
OPS_ONE  == 1
OPS_TWO  == 2

\* enum CommandsTable (instruction values are the opcodes)
MOV  == 0
CMP  == 1
ADD  == 2
SUB  == 3
NOT  == 4
CLR  == 5
LEA  == 6
INC  == 7
DEC  == 8
JMP  == 9
BNE  == 10
RED  == 11
PRN  == 12
JSR  == 13
RTS  == 14
STOP == 15
DATA   == 16
CMD_STRING == 17
MATRIX == 18
ENTRY  == 19
EXTERN == 20
UNDEFINED == -1

\* enum symbol_type
DATA_SYMBOL     == 0
CODE_SYMBOL     == 1
EXTERNAL_SYMBOL == 2
ENTRY_SYMBOL    == 3
NONE_SYMBOL     == 4

(***************************************************************************)
(* The translation units that own a g_diag.                                *)
(***************************************************************************)
DiagFiles == {"main", "process_macros", "first_pass", "words", "functions",
              "opmodes", "second_pass"}

NoFile == <<"absent">>

(***************************************************************************)
(* Small arithmetic helpers (C operators on non-negative operands).        *)
(***************************************************************************)
Min(a, b) == IF a < b THEN a ELSE b

\* x & 0xFF for a C int x (two's complement)
And8(x) == x % 256

\* (unsigned short) x
U16(x) == x % 65536

(***************************************************************************)
(* Strings: strncpy(dst, src, n) followed by dst[n] = '\0'.                *)
(***************************************************************************)
StrNCpy(src, n) == IF Len(src) <= n THEN src ELSE SubSeq(src, 1, n)

(***************************************************************************)
(* Character classes and the label validators of first_pass.c.             *)
(***************************************************************************)
LowerChars == "abcdefghijklmnopqrstuvwxyz"
UpperChars == "ABCDEFGHIJKLMNOPQRSTUVWXYZ"
DigitChars == "0123456789"

CharAt(s, i) == SubSeq(s, i, i)

\* position of the one-character string c in s, 0 when absent
IndexIn(c, s) ==
    IF \E i \in 1..Len(s) : CharAt(s, i) = c
    THEN CHOOSE i \in 1..Len(s) :
            CharAt(s, i) = c /\ \A j \in 1..(i - 1) : CharAt(s, j) # c
    ELSE 0

isalpha(c) == IndexIn(c, LowerChars) > 0 \/ IndexIn(c, UpperChars) > 0
isdigit(c) == IndexIn(c, DigitChars) > 0
isalnum(c) == isalpha(c) \/ isdigit(c)

tolower(c) ==
    IF IndexIn(c, UpperChars) > 0
    THEN CharAt(LowerChars, IndexIn(c, UpperChars))
    ELSE c

RECURSIVE StrLower(_)
StrLower(s) ==
    IF Len(s) = 0 THEN ""
    ELSE tolower(CharAt(s, 1)) \o StrLower(SubSeq(s, 2, Len(s)))

\* case-insensitive equality
ieq(str1, str2) == StrLower(str1) = StrLower(str2)

InstructionNames ==
    [mov |-> MOV, cmp |-> CMP, add |-> ADD, sub |-> SUB, not |-> NOT,
     clr |-> CLR, lea |-> LEA, inc |-> INC, dec |-> DEC, jmp |-> JMP,
     bne |-> BNE, red |-> RED, prn |-> PRN, jsr |-> JSR, rts |-> RTS,
     stop |-> STOP]

DirectiveNames ==
    [data |-> DATA, string |-> CMD_STRING, mat |-> MATRIX, entry |-> ENTRY,
     extern |-> EXTERN]

\* The table names are lower case, so the case-insensitive scan of the table
\* finds the entry whose name is the lower-cased token.
match_instruction(token) ==
    IF StrLower(token) \in DOMAIN InstructionNames
    THEN InstructionNames[StrLower(token)]
    ELSE UNDEFINED

match_directive(token) ==
    IF StrLower(token) \in DOMAIN DirectiveNames
    THEN DirectiveNames[StrLower(token)]
    ELSE UNDEFINED

is_register_name(str) ==
    /\ Len(str) = 2
    /\ CharAt(str, 1) \in {"r", "R"}
    /\ IndexIn(CharAt(str, 2), "01234567") > 0

is_alpha_num_label(str) ==
    /\ Len(str) > 0
    /\ isalpha(CharAt(str, 1))
    /\ \A i \in 2..Len(str) : isalnum(CharAt(str, i))

is_reserved_mnemonic(token) ==
    /\ Len(token) > 0
    /\ \/ match_instruction(token) # UNDEFINED
       \/ match_directive(token) # UNDEFINED
       \/ is_register_name(token)

\* The code of the error validate_label_name reports, "" when the name passes.
validate_label_name(label_name) ==
    IF Len(label_name) = 0 THEN "AS001"
    ELSE IF ~is_alpha_num_label(label_name) THEN "AS001"
    ELSE IF is_reserved_mnemonic(label_name) THEN "AS015"
    ELSE IF is_register_name(label_name) THEN "AS016"
    ELSE ""

\* get_command_type on the (lower-cased) first token of the statement: a
\* leading dot is dropped for the directive lookup only.
get_command_type(token) ==
    IF Len(token) = 0 THEN UNDEFINED
    ELSE IF match_instruction(token) # UNDEFINED THEN match_instruction(token)
    ELSE match_directive(IF CharAt(token, 1) = "."
                         THEN SubSeq(token, 2, Len(token)) ELSE token)

determine_symbol_type(cmd) ==
    IF cmd \in {DATA, CMD_STRING, MATRIX} THEN DATA_SYMBOL
    ELSE IF cmd = ENTRY THEN ENTRY_SYMBOL
    ELSE IF cmd = EXTERN THEN EXTERNAL_SYMBOL
    ELSE CODE_SYMBOL

(***************************************************************************)
(* Source lines, as the lexical layer of the first pass sees them.         *)
(*                                                                         *)
(*   label : the token before the first ':' (colon = FALSE: no label)      *)
(*   tok   : the first token of the statement, as written                  *)
(*   n, src, dst : what split_operands returns for an instruction          *)
(*   toks  : the comma/number tokens after .data or after .mat[r][c]       *)
(*   rows, cols : the bracketed dimensions of .mat (0: not a positive      *)
(*           bracketed integer)                                            *)
(*   open, chars, closed : the literal after .string                       *)
(*   arg, junk : the token after .entry/.extern, and whether text follows  *)
(*   text, cut : for a statement given as text, the characters from the     *)
(*           mnemonic on and the place split_operands cut them at          *)
(***************************************************************************)
NoOperand == [kind |-> "none", name |-> "", val |-> 0, ra |-> 0, rb |-> 0]

\* "#<val>"
Imm(v)    == [kind |-> "imm", name |-> "", val |-> v, ra |-> 0, rb |-> 0]
\* "#" followed by something strtol does not accept
ImmBad    == [kind |-> "immbad", name |-> "", val |-> 0, ra |-> 0, rb |-> 0]
\* "r<r>", r in 0..7
Reg(r)    == [kind |-> "reg", name |-> "", val |-> 0, ra |-> r, rb |-> 0]
\* any other token without '['
Direct(nm) == [kind |-> "direct", name |-> nm, val |-> 0, ra |-> 0, rb |-> 0]
\* "<nm>[r<a>][r<b>]"
Mat(nm, a, b) == [kind |-> "mat", name |-> nm, val |-> 0, ra |-> a, rb |-> b]
\* a token with '[' that parse_matrix_operand rejects with error code nm
MatBad(code) == [kind |-> "matbad", name |-> code, val |-> 0, ra |-> 0, rb |-> 0]

NoLabel == [colon |-> FALSE, text |-> ""]
Lbl(t)  == [colon |-> TRUE, text |-> t]

Num(v) == [t |-> "num", v |-> v]
Comma  == [t |-> "comma", v |-> 0]
Junk   == [t |-> "junk", v |-> 0]

BlankLine ==
    [label |-> NoLabel, tok |-> "", n |-> 0, src |-> NoOperand,
     dst |-> NoOperand, toks |-> <<>>, rows |-> 0, cols |-> 0,
     open |-> FALSE, chars |-> <<>>, closed |-> FALSE, arg |-> "",
     junk |-> FALSE, text |-> "", cut |-> 0]

\* "<mnemonic>", "<mnemonic> a" and "<mnemonic> a, b"
Instr0(lab, m)       == [BlankLine EXCEPT !.label = lab, !.tok = m]
Instr1(lab, m, a)    == [BlankLine EXCEPT !.label = lab, !.tok = m, !.n = 1,
                                          !.src = a]
Instr2(lab, m, a, b) == [BlankLine EXCEPT !.label = lab, !.tok = m, !.n = 2,
                                          !.src = a, !.dst = b]
DataDir(lab, kw, ts) == [BlankLine EXCEPT !.label = lab, !.tok = kw, !.toks = ts]
StringDir(lab, kw, cs, cl) ==
    [BlankLine EXCEPT !.label = lab, !.tok = kw, !.open = TRUE, !.chars = cs,
                      !.closed = cl]
MatDir(lab, kw, r, c, ts) ==
    [BlankLine EXCEPT !.label = lab, !.tok = kw, !.rows = r, !.cols = c,
                      !.toks = ts]
ArgDir(lab, kw, a, j) ==
    [BlankLine EXCEPT !.label = lab, !.tok = kw, !.arg = a, !.junk = j]

(***************************************************************************)
(* The state one stem's pipeline works on, as a record, so that the C      *)
(* statements of a handler can be composed in order.                       *)
(*   g_diag   : error_count of each translation unit's static g_diag       *)
(*   reported : the error codes printed for the current stem (the part of  *)
(*              stdout the claims speak about)                             *)
(*   dc_at_def: history, DC when a DATA label was recorded                 *)
(***************************************************************************)
diag_error(s, file, code) ==
    [s EXCEPT !.g_diag[file] = @ + 1, !.reported = @ \cup {code}]

(***************************************************************************)
(* opmodes.c: the addressing-mode rule table and its validator.            *)
(* A mask is the set of the modes whose bit is set.                        *)
(***************************************************************************)
AM_NONE == {}
AM_ALL  == {ADDR_IMMEDIATE, ADDR_DIRECT, ADDR_MATRIX, ADDR_REGISTER}
AM_DMR  == {ADDR_DIRECT, ADDR_MATRIX, ADDR_REGISTER}

Rule(lo, hi, sm, dm) ==
    [min_ops |-> lo, max_ops |-> hi, src_mask |-> sm, dst_mask |-> dm]

opcode_rule_any(cmd) == Rule(OPS_ZERO, OPS_TWO, AM_ALL, AM_ALL)

opcode_rule(cmd) ==
    CASE cmd = MOV -> Rule(OPS_TWO, OPS_TWO, AM_ALL, AM_DMR)
      [] cmd = CMP -> Rule(OPS_TWO, OPS_TWO, AM_ALL, AM_ALL)
      [] cmd \in {ADD, SUB} -> Rule(OPS_TWO, OPS_TWO, AM_DMR, AM_DMR)
      [] cmd = LEA -> Rule(OPS_TWO, OPS_TWO, {ADDR_DIRECT, ADDR_MATRIX}, AM_DMR)
      [] cmd \in {CLR, NOT, INC, DEC, JMP, BNE, JSR, RED} ->
                      Rule(OPS_ONE, OPS_ONE, AM_NONE, AM_DMR)
      [] cmd = PRN -> Rule(OPS_ONE, OPS_ONE, AM_NONE, AM_ALL)
      [] cmd \in {RTS, STOP} -> Rule(OPS_ZERO, OPS_ZERO, AM_NONE, AM_NONE)

mode_bit(m) == IF m = ADDR_NONE THEN {} ELSE {m}

\* Returns the state with rc = 1 if an error was reported, rc = 0 otherwise.
validate_operand(s, rule, mode, is_source) ==
    LET required_mask == IF is_source THEN rule.src_mask ELSE rule.dst_mask
    IN  IF mode = ADDR_NONE
        THEN [diag_error(s, "opmodes", "AS023") EXCEPT !.rc = 1]
        ELSE IF required_mask \cap mode_bit(mode) = {}
        THEN [diag_error(s, "opmodes", "AS022") EXCEPT !.rc = 1]
        ELSE [s EXCEPT !.rc = 0]

validate_modes_for_opcode(s, cmd, operand_count, src_mode, dst_mode) ==
    LET rule == opcode_rule(cmd)
    IN  IF operand_count < rule.min_ops \/ operand_count > rule.max_ops
        THEN [diag_error(s, "opmodes", "AS003") EXCEPT !.rc = 1]
        ELSE CASE operand_count = OPS_ZERO -> [s EXCEPT !.rc = 0]
               [] operand_count = OPS_ONE ->
                    LET s1 == IF src_mode # ADDR_NONE
                              THEN [diag_error(s, "opmodes", "AS024")
                                        EXCEPT !.rc = 1]
                              ELSE [s EXCEPT !.rc = 0]
                        s2 == validate_operand(s1, rule, dst_mode, FALSE)
                    IN  [s2 EXCEPT !.rc = IF s1.rc = 1 \/ s2.rc = 1
                                          THEN 1 ELSE 0]
               [] operand_count = OPS_TWO ->
                    LET s1 == validate_operand(s, rule, src_mode, TRUE)
                        s2 == validate_operand(s1, rule, dst_mode, FALSE)
                    IN  [s2 EXCEPT !.rc = IF s1.rc = 1 \/ s2.rc = 1
                                          THEN 1 ELSE 0]

(***************************************************************************)
(* words.c: the emitters.                                                  *)
(***************************************************************************)
to2bits(m) ==
    CASE m = ADDR_IMMEDIATE -> BITS_IMMEDIATE
      [] m = ADDR_DIRECT    -> BITS_DIRECT
      [] m = ADDR_MATRIX    -> BITS_MATRIX
      [] m = ADDR_REGISTER  -> BITS_REGISTER
      [] OTHER              -> BITS_IMMEDIATE

\* Appends a machine word at address IC; the label is copied with
\* strncpy(mw->label, label, MAX_LABEL_LEN - 1).
put_word(s, IC_, payload, are, label) ==
    [s EXCEPT !.ic_image = Append(@,
        [address |-> IC_, value |-> payload % (PAYLOAD8_MASK + 1),
         are |-> are, label |-> StrNCpy(label, MAX_LABEL_LEN - 1)])]

toBinaryFirstWord_swapped(s, op, src, dest) ==
    [s EXCEPT !.ic_image = Append(@,
        [address |-> s.IC,
         value |-> ((op % 16) * 16 + to2bits(dest) * 4 + to2bits(src))
                      % (PAYLOAD8_MASK + 1),
         are |-> ARE_ABS, label |-> ""]),
              !.IC = @ + 1]

toBinaryFirstWord(s, op, src, dest) ==
    LET opc == op % 16
        packed == (opc * 16 + to2bits(src) * 4 + to2bits(dest))
                     % (PAYLOAD8_MASK + 1)
    IN  [s EXCEPT !.ic_image = Append(@,
            [address |-> s.IC, value |-> packed, are |-> ARE_ABS,
             label |-> ""]),
                  !.IC = @ + 1]

emit_addr_word(s, symbol, addr8, are) ==
    [put_word(s, s.IC, addr8, are, symbol) EXCEPT !.IC = @ + 1]

emit_imm_word(s, val) ==
    [put_word(s, s.IC, And8(val), ARE_ABS, "") EXCEPT !.IC = @ + 1]

emit_regcode_pair_twice(s, rA, rB) ==
    [put_word(put_word(s, s.IC, (rA % 16) * 16 + (rB % 16), ARE_ABS, ""),
              s.IC + 1, (rA % 16) * 16 + (rB % 16), ARE_ABS, "")
        EXCEPT !.IC = @ + 2]

emit_regcode_pair(s, rA, rB) ==
    [put_word(s, s.IC, (rA % 16) * 16 + (rB % 16), ARE_ABS, "")
        EXCEPT !.IC = @ + 1]

emit_regcode_single_dest_none(s, r) == s

emit_regcode_single_dest(s, r) ==
    [put_word(s, s.IC, r % 16, ARE_ABS, "") EXCEPT !.IC = @ + 1]

emit_regcode_single_src(s, r) ==
    [put_word(s, s.IC, (r % 16) * 16, ARE_ABS, "") EXCEPT !.IC = @ + 1]

SymIndex_none(tab, name) == 0

\* The symbol table is a list with insertion at the head; a lookup returns
\* the first entry with the key.
SymIndex(tab, name) ==
    IF \E i \in 1..Len(tab) : tab[i].key = name
    THEN CHOOSE i \in 1..Len(tab) :
            tab[i].key = name /\ \A j \in 1..(i - 1) : tab[j].key # name
    ELSE 0

find_symbol(tab, name) == SymIndex(tab, name) # 0

emit_symbol_addr(s, name) ==
    LET i == SymIndex(s.symbol_table, name)
        payload == IF i = 0 THEN 0 ELSE And8(s.symbol_table[i].value)
        are == IF i = 0 THEN ARE_ABS
               ELSE IF s.symbol_table[i].type = EXTERNAL_SYMBOL THEN ARE_EXT
               ELSE IF s.symbol_table[i].type \in
                          {CODE_SYMBOL, DATA_SYMBOL, ENTRY_SYMBOL} THEN ARE_REL
               ELSE ARE_ABS
    IN  emit_addr_word(s, name, payload, are)

(***************************************************************************)
(* words.c: the per-line instruction encoder.                              *)
(***************************************************************************)
get_addr_method(operand) ==
    CASE operand.kind = "none"              -> ADDR_NONE
      [] operand.kind \in {"imm", "immbad"} -> ADDR_IMMEDIATE
      [] operand.kind = "reg"               -> ADDR_REGISTER
      [] operand.kind \in {"mat", "matbad"} -> ADDR_MATRIX
      [] OTHER                              -> ADDR_DIRECT

\* parse_imm8 succeeds on "#<number>" with the number in IMM8_MIN..IMM8_MAX
parse_imm8(tok) ==
    tok.kind = "imm" /\ tok.val >= IMM8_MIN /\ tok.val <= IMM8_MAX

\* One case of the operand switch of process_commands_words; rc = -1 is the
\* "goto out" after a reported error, rc = 0 the "break".
EncodeOperand(s, tok, mode, is_source) ==
    CASE mode = ADDR_IMMEDIATE ->
            IF ~parse_imm8(tok)
            THEN [diag_error(s, "words", "AS023") EXCEPT !.rc = -1]
            ELSE [emit_imm_word(s, tok.val) EXCEPT !.rc = 0]
      [] mode = ADDR_DIRECT ->
            [emit_symbol_addr(s, tok.name) EXCEPT !.rc = 0]
      [] mode = ADDR_REGISTER ->
            [(IF is_source THEN emit_regcode_single_src(s, tok.ra)
                           ELSE emit_regcode_single_dest(s, tok.ra))
                EXCEPT !.rc = 0]
      [] mode = ADDR_MATRIX ->
            IF tok.kind = "matbad"
            THEN \* split_matrix_ex: report_matrix_error, return 0
                 [diag_error(s, "functions", tok.name) EXCEPT !.rc = -1]
            ELSE [emit_regcode_pair(emit_symbol_addr(s, tok.name),
                                    tok.ra, tok.rb) EXCEPT !.rc = 0]
      [] OTHER -> [s EXCEPT !.rc = 0]

\* PHASE 5: the destination operand (the only operand of a one-operand
\* instruction); s2.rc # 0 is the "goto out" of PHASE 4.
EncodeDestination(s2, tok, dst_mode, operand_count) ==
    IF s2.rc # 0 THEN s2
    ELSE IF operand_count >= OPS_ONE
    THEN EncodeOperand(s2, tok, dst_mode, FALSE)
    ELSE [s2 EXCEPT !.rc = 0]

\* After the first word: the register pair, or PHASE 4 and PHASE 5.
EncodeOperands(s1, l, operand_count, src_mode, dst_mode) ==
    IF operand_count = OPS_TWO /\ src_mode = ADDR_REGISTER
       /\ dst_mode = ADDR_REGISTER
    THEN [put_word(s1, s1.IC, (l.src.ra % 16) * 16 + (l.dst.ra % 16),
                   ARE_ABS, "")
            EXCEPT !.IC = @ + 1, !.rc = 0]
    ELSE IF operand_count = OPS_TWO
    THEN EncodeDestination(EncodeOperand(s1, l.src, src_mode, TRUE),
                           l.dst, dst_mode, operand_count)
    ELSE EncodeDestination([s1 EXCEPT !.rc = 0], l.src, dst_mode,
                           operand_count)

\* PHASE 2 and 3: v is the state validate_modes_for_opcode returned.
EncodeValidated(v, cmd, l, operand_count, src_mode, dst_mode) ==
    IF v.rc # 0 THEN [v EXCEPT !.rc = -1]
    ELSE EncodeOperands(toBinaryFirstWord(v, cmd, src_mode, dst_mode), l,
                        operand_count, src_mode, dst_mode)

OperandSrcMode(l) ==
    IF l.n = OPS_TWO THEN get_addr_method(l.src) ELSE ADDR_NONE

OperandDstMode(l) ==
    IF l.n = OPS_TWO THEN get_addr_method(l.dst)
    ELSE IF l.n = OPS_ONE THEN get_addr_method(l.src)
    ELSE ADDR_NONE

process_commands_words(s, cmd, l) ==
    EncodeValidated(
        validate_modes_for_opcode(s, cmd, l.n, OperandSrcMode(l),
                                  OperandDstMode(l)),
        cmd, l, l.n, OperandSrcMode(l), OperandDstMode(l))

(***************************************************************************)
(* functions.c: the directive parsers.                                     *)
(***************************************************************************)
\* strstr(hay, needle) != NULL
StrStr(hay, needle) ==
    \E i \in 1..(Len(hay) - Len(needle) + 1) :
        SubSeq(hay, i, i + Len(needle) - 1) = needle

in_data_range(v) == v >= DATA_MIN /\ v <= DATA_MAX

\* create_data_word + add_data_word_to_end
AddDataWord(s, value, address) ==
    [s EXCEPT !.data_img = Append(@, [address |-> address,
                                      value |-> U16(value)])]

\* node = create_data_word(value, (*DC) + (*IC)); add...; (*DC)++
EmitData_keeps_DC(s, value) == AddDataWord(s, value, s.DC + s.IC)

EmitData(s, value) ==
    [AddDataWord(s, value, s.DC + s.IC) EXCEPT !.DC = @ + 1]

RECURSIVE DataLoop(_, _, _, _)
DataLoop(s, toks, expect_value, last_comma) ==
    IF toks = <<>>
    THEN IF expect_value /\ last_comma
         THEN [diag_error(s, "functions", "AS314") EXCEPT !.rc = -1]
         ELSE [s EXCEPT !.rc = 0]
    ELSE LET tk == Head(toks)
         IN  IF expect_value
             THEN IF tk.t = "comma"
                  THEN [diag_error(s, "functions", "AS310") EXCEPT !.rc = -1]
                  ELSE IF tk.t # "num"
                  THEN [diag_error(s, "functions", "AS311") EXCEPT !.rc = -1]
                  ELSE IF ~in_data_range(tk.v)
                  THEN [diag_error(s, "functions", "AS312") EXCEPT !.rc = -1]
                  ELSE DataLoop(EmitData(s, tk.v), Tail(toks), FALSE,
                                last_comma)
             ELSE IF tk.t # "comma"
                  THEN [diag_error(s, "functions", "AS313") EXCEPT !.rc = -1]
                  ELSE DataLoop(s, Tail(toks), TRUE, TRUE)

process_data_directive_at(s, l) ==
    IF ~StrStr(l.tok, ".data") THEN [s EXCEPT !.rc = -1]
    ELSE DataLoop(s, l.toks, TRUE, FALSE)

RECURSIVE StringLoop(_, _)
StringLoop(s, chars) ==
    IF chars = <<>> THEN s
    ELSE StringLoop(EmitData(s, Head(chars)), Tail(chars))

process_string_directive_at(s, l) ==
    IF ~StrStr(l.tok, ".string") THEN [s EXCEPT !.rc = -1]
    ELSE IF ~l.open
    THEN [diag_error(s, "functions", "AS320") EXCEPT !.rc = -1]
    ELSE LET s1 == StringLoop(s, l.chars)
         IN  IF ~l.closed
             THEN [diag_error(s1, "functions", "AS321") EXCEPT !.rc = -1]
             ELSE [EmitData(s1, 0) EXCEPT !.rc = 0]

\* while (produced < total_values) { emit 0 at (*DC) + (*IC); (*DC)++ }
MatFill(s, produced, total_values) ==
    LET n == IF produced < total_values THEN total_values - produced ELSE 0
    IN  [s EXCEPT !.data_img = @ \o [k \in 1..n |->
                                [address |-> s.DC + (k - 1) + s.IC,
                                 value |-> U16(0)]],
                  !.DC = @ + n,
                  !.rc = 0]

RECURSIVE MatLoop(_, _, _, _, _)
MatLoop(s, toks, expect_value, produced, total_values) ==
    IF toks = <<>> THEN MatFill(s, produced, total_values)
    ELSE LET tk == Head(toks)
         IN  IF expect_value
             THEN IF tk.t = "comma"
                  THEN [diag_error(s, "functions", "AS304") EXCEPT !.rc = -1]
                  ELSE IF tk.t # "num"
                  THEN [diag_error(s, "functions", "AS305") EXCEPT !.rc = -1]
                  ELSE IF ~in_data_range(tk.v)
                  THEN [diag_error(s, "functions", "AS306") EXCEPT !.rc = -1]
                  ELSE IF produced >= total_values
                  THEN [diag_error(s, "functions", "AS307") EXCEPT !.rc = -1]
                  ELSE MatLoop(EmitData(s, tk.v), Tail(toks), FALSE,
                               produced + 1, total_values)
             ELSE IF tk.t = "comma"
                  THEN IF Tail(toks) = <<>>
                       THEN [diag_error(s, "functions", "AS309")
                                EXCEPT !.rc = -1]
                       ELSE MatLoop(s, Tail(toks), TRUE, produced,
                                    total_values)
                  ELSE [diag_error(s, "functions", "AS308") EXCEPT !.rc = -1]

process_matrix_directive_at(s, l) ==
    IF ~StrStr(l.tok, ".mat") THEN [s EXCEPT !.rc = -1]
    ELSE IF l.rows <= 0
    THEN [diag_error(s, "functions", "AS301") EXCEPT !.rc = -1]
    ELSE IF l.cols <= 0
    THEN [diag_error(s, "functions", "AS302") EXCEPT !.rc = -1]
    ELSE IF l.rows > (LONG_MAX_L \div l.cols)
    THEN [diag_error(s, "functions", "AS303") EXCEPT !.rc = -1]
    ELSE MatLoop(s, l.toks, TRUE, 0, l.rows * l.cols)

process_data_string_mat(s, cmd, l) ==
    CASE cmd = DATA       -> process_data_directive_at(s, l)
      [] cmd = CMD_STRING -> process_string_directive_at(s, l)
      [] cmd = MATRIX     -> process_matrix_directive_at(s, l)
      [] OTHER            -> [s EXCEPT !.rc = -1]

(***************************************************************************)
(* functions.c: symbol table and the .entry / .extern lists.               *)
(***************************************************************************)
add_table_item(tab, key, value, type) ==
    LET i == SymIndex(tab, key)
    IN  IF i # 0
        THEN [tab EXCEPT ![i].value = value, ![i].type = type]
        ELSE <<[key |-> key, value |-> value, type |-> type]>> \o tab

\* labels is char[MAX_LABEL_LEN]; strncpy(node->labels, label, sizeof - 1)
add_entry(s, label, addr) ==
    [s EXCEPT !.ent_list = Append(@,
        [labels |-> StrNCpy(label, MAX_LABEL_LEN - 1), addr |-> addr])]

add_extern(s, label) ==
    [s EXCEPT !.ext_list = Append(@,
        [labels |-> StrNCpy(label, MAX_LABEL_LEN - 1), addr_head |-> <<>>])]

(***************************************************************************)
(* first_pass.c                                                            *)
(***************************************************************************)
\* A check_sum_limit that accepts every sum.
check_sum_limit_accepts_all(s, IC_, DC_) == [s EXCEPT !.rc = 1]

\* rc = 1: within the limit, rc = 0: error reported
check_sum_limit(s, IC_, DC_) ==
    IF IC_ + DC_ < OB_SUM_LIMIT THEN [s EXCEPT !.rc = 1]
    ELSE [diag_error(s, "first_pass", "AS_SUM_GE_LIMIT") EXCEPT !.rc = 0]

\* rc = 1: *label_out is a valid label, rc = 0 otherwise
is_label_definition(s, l) ==
    IF ~l.label.colon THEN [s EXCEPT !.rc = 0]
    ELSE IF Len(l.label.text) > MAX_LABEL_LEN
    THEN [diag_error(s, "first_pass", "AS001") EXCEPT !.rc = 0]
    ELSE IF validate_label_name(l.label.text) # ""
    THEN [diag_error(s, "first_pass", validate_label_name(l.label.text))
            EXCEPT !.rc = 0]
    ELSE [s EXCEPT !.rc = 1]

\* A process_valid_label that records a DATA label with the data counter
\* alone.
process_valid_label_offset(s, label_name, sym_type, IC_value, DC_value) ==
    IF sym_type = CODE_SYMBOL
    THEN [s EXCEPT !.symbol_table =
                      add_table_item(@, label_name, IC_value, CODE_SYMBOL)]
    ELSE IF sym_type = DATA_SYMBOL
    THEN [s EXCEPT !.symbol_table =
                      add_table_item(@, label_name, DC_value, DATA_SYMBOL),
                   !.dc_at_def = Append(@, [key |-> label_name,
                                            dc |-> DC_value])]
    ELSE s

\* dc_at_def is a history field: the data counter when the label is recorded.
process_valid_label(s, label_name, sym_type, IC_value, DC_value) ==
    IF sym_type = CODE_SYMBOL
    THEN [s EXCEPT !.symbol_table =
                      add_table_item(@, label_name, IC_value, CODE_SYMBOL)]
    ELSE IF sym_type = DATA_SYMBOL
    THEN [s EXCEPT !.symbol_table =
                      add_table_item(@, label_name, IC_value + DC_value,
                                     DATA_SYMBOL),
                   !.dc_at_def = Append(@, [key |-> label_name,
                                            dc |-> DC_value])]
    ELSE s

\* rc = 0 on success, 1 after a reported error; the diagnostics go to the
\* context the caller passes, which is first_pass's g_diag.
handle_directive_argument(s, directive_name, l) ==
    LET missing == IF directive_name = "entry" THEN "AS011" ELSE "AS012"
        label == l.arg
    IN  IF Len(label) = 0
        THEN [diag_error(s, "first_pass", missing) EXCEPT !.rc = 1]
        ELSE IF Len(label) > MAX_LABEL_LEN
        THEN [diag_error(s, "first_pass", "AS013") EXCEPT !.rc = 1]
        ELSE IF ~is_alpha_num_label(label) \/ is_reserved_mnemonic(label)
                \/ is_register_name(label)
        THEN [diag_error(s, "first_pass", "AS014") EXCEPT !.rc = 1]
        ELSE IF l.junk
        THEN [diag_error(s, "first_pass", "AS015") EXCEPT !.rc = 1]
        ELSE IF directive_name = "entry"
        THEN [add_entry(s, label, 0) EXCEPT !.rc = 0]
        ELSE [add_extern(s, label) EXCEPT !.rc = 0]

IsInstruction(cmd) == cmd >= MOV /\ cmd <= STOP

\* if (!check_sum_limit(...)) had_error = 1;
SumLimitStep(e) ==
    IF check_sum_limit(e, e.IC, e.DC).rc = 0
    THEN [check_sum_limit(e, e.IC, e.DC) EXCEPT !.had_error = TRUE]
    ELSE [e EXCEPT !.rc = 1]

\* rc = process_data_string_mat(...); if (rc != 0) had_error = 1;
DataResultStep(f) ==
    IF f.rc # 0 THEN [f EXCEPT !.had_error = TRUE] ELSE f

\* PHASE 5: the switch on the command.
CommandPhase(d, cmd, l) ==
    IF IsInstruction(cmd)
    THEN SumLimitStep(process_commands_words(d, cmd, l))
    ELSE IF cmd \in {DATA, CMD_STRING, MATRIX}
    THEN SumLimitStep(DataResultStep(process_data_string_mat(d, cmd, l)))
    ELSE IF cmd = ENTRY THEN handle_directive_argument(d, "entry", l)
    ELSE handle_directive_argument(d, "extern", l)

\* PHASE 3 and 4: classification of the token and label registration;
\* label_name tells whether a valid, not yet defined label is in hand.
ClassifyPhase(c, l, label_name, token, cmd) ==
    IF cmd = UNDEFINED
    THEN [diag_error(IF Len(token) > 0
                     THEN diag_error(c, "first_pass", "AS004") ELSE c,
                     "first_pass", "AS002")
            EXCEPT !.had_error = TRUE]
    ELSE IF label_name /\ cmd # ENTRY /\ cmd # EXTERN
    THEN CommandPhase(process_valid_label(c, l.label.text,
                                          determine_symbol_type(cmd),
                                          c.IC, c.DC), cmd, l)
    ELSE CommandPhase(c, cmd, l)

\* PHASE 2: the token is read after a valid label only; otherwise it starts
\* at the first character of the line.
LineToken(l, has_label) ==
    IF l.label.colon /\ ~has_label
    THEN StrLower(l.label.text) \o ":"
    ELSE StrLower(l.tok)

\* The duplicate check of a valid label.
DuplicatePhase(b, l, has_label) ==
    IF has_label /\ find_symbol(b.symbol_table, l.label.text)
    THEN ClassifyPhase([diag_error(b, "first_pass", "AS020")
                            EXCEPT !.had_error = TRUE],
                       l, FALSE, LineToken(l, has_label),
                       get_command_type(LineToken(l, has_label)))
    ELSE ClassifyPhase(b, l, has_label, LineToken(l, has_label),
                       get_command_type(LineToken(l, has_label)))

\* PHASE 1: a is the state is_label_definition returned, a.rc its result.
LabelPhase(a, l) ==
    IF a.rc # 1 /\ l.label.colon
    THEN DuplicatePhase([diag_error(a, "first_pass", "AS001")
                            EXCEPT !.had_error = TRUE], l, FALSE)
    ELSE DuplicatePhase(a, l, a.rc = 1)

\* One iteration of the line loop of first_pass.
first_pass_line(s, l) == LabelPhase(is_label_definition(s, l), l)

\* After the loop: second_pass is called if the pass was clean, and the
\* value first_pass returns is left in rc.
FirstPassReturn(a) ==
    [a EXCEPT !.rc = IF a.g_diag["first_pass"] = 0 /\ ~a.had_error
                     THEN 0 ELSE 1]

(***************************************************************************)
(* second_pass.c                                                           *)
(***************************************************************************)
quad_letter(d) == CharAt("abcd", (d % 4) + 1)

\* width letters, most significant first; higher digits are dropped
RECURSIVE to_base4_letters(_, _)
to_base4_letters(value, width) ==
    IF width <= 0 THEN ""
    ELSE to_base4_letters(value \div 4, width - 1) \o quad_letter(value)

RECURSIVE to_base4_letters_header(_)
to_base4_letters_header(value) ==
    IF value < 4 THEN quad_letter(value)
    ELSE to_base4_letters_header(value \div 4) \o quad_letter(value)

word10_to_letters_code(payload8, are2) ==
    to_base4_letters((payload8 % (PAYLOAD8_MASK + 1)) * 4 + (are2 % 4),
                     WORD10_DIGITS)

word10_to_letters_data(payload10) ==
    to_base4_letters(payload10 % (WORD10_MASK + 1), WORD10_DIGITS)

\* Index of the first extern node with the name, 0 if there is none
ExtIndex(xs, name) ==
    IF \E i \in 1..Len(xs) : xs[i].labels = name
    THEN CHOOSE i \in 1..Len(xs) :
            xs[i].labels = name /\ \A j \in 1..(i - 1) : xs[j].labels # name
    ELSE 0

add_to_extern_usage_list(xs, i, addr) ==
    [xs EXCEPT ![i].addr_head = Append(@, addr)]

\* The loop of resolve_labels_in_place, from word k on.
RECURSIVE ResolveFrom(_, _)
ResolveFrom(s, k) ==
    IF k > Len(s.ic_image) THEN s
    ELSE LET mw  == s.ic_image[k]
             hit == SymIndex(s.symbol_table, mw.label)
             x   == ExtIndex(s.ext_list, mw.label)
         IN  IF mw.label = "" THEN ResolveFrom(s, k + 1)
             ELSE IF hit # 0
             THEN ResolveFrom(
                    [s EXCEPT !.ic_image[k].are = ARE_REL,
                              !.ic_image[k].value =
                                  And8(s.symbol_table[hit].value)], k + 1)
             ELSE IF x # 0
             THEN ResolveFrom(
                    [s EXCEPT !.ic_image[k].value = 0,
                              !.ic_image[k].are = ARE_EXT,
                              !.ext_list = add_to_extern_usage_list(@, x,
                                                            mw.address)],
                    k + 1)
             ELSE ResolveFrom([s EXCEPT !.ic_image[k].value = 0], k + 1)

resolve_labels_in_place(s) == ResolveFrom(s, 1)

complete_entry_labels(s) ==
    [s EXCEPT !.ent_list =
        [k \in 1..Len(@) |->
            LET i == SymIndex(s.symbol_table, @[k].labels)
            IN  IF i # 0
                THEN [@[k] EXCEPT !.addr = s.symbol_table[i].value]
                ELSE @[k]]]

Pow4(w) == 2 ^ (2 * w)

\* A written file is the sequence of its lines.
write_ob_base4_only(s, IC_final, addr_width, DC_final, fopen_ok) ==
    LET code_words  == IF IC_final > IC_INIT_VALUE
                       THEN IC_final - IC_INIT_VALUE ELSE 0
        data_words  == IF DC_final > 0 THEN DC_final ELSE 0
        total_words == code_words + data_words
        max_allowed == Min(Pow4(addr_width) - 1, OB_WORD_LIMIT)
        r == [s EXCEPT !.ob_reached = TRUE]
        header == <<"\t" \o to_base4_letters_header(IC_final) \o "\t"
                       \o to_base4_letters_header(DC_final)>>
        code == [k \in 1..Len(s.ic_image) |->
                    to_base4_letters(s.ic_image[k].address, addr_width)
                    \o " " \o word10_to_letters_code(s.ic_image[k].value,
                                                     s.ic_image[k].are)]
        data == [k \in 1..Len(s.data_img) |->
                    to_base4_letters(s.data_img[k].address, addr_width)
                    \o " " \o word10_to_letters_data(s.data_img[k].value)]
    IN  IF total_words > max_allowed
        THEN diag_error(r, "second_pass", "AS_OB_TOO_LONG")
        ELSE IF ~fopen_ok
        THEN diag_error(r, "second_pass", "AS_FILE_OPEN")
        ELSE [r EXCEPT !.ob_file = header \o code \o data]

has_any_extern_usage(xs) == \E i \in 1..Len(xs) : xs[i].addr_head # <<>>

RECURSIVE ExtLines(_)
ExtLines(xs) ==
    IF xs = <<>> THEN <<>>
    ELSE [k \in 1..Len(Head(xs).addr_head) |->
             Head(xs).labels \o " "
             \o to_base4_letters(Head(xs).addr_head[k], EXT_ENT_ADDR_WIDTH)]
         \o ExtLines(Tail(xs))

write_ext_base4_only(s, fopen_ok) ==
    IF s.ext_list = <<>> \/ ~has_any_extern_usage(s.ext_list) THEN s
    ELSE IF ~fopen_ok THEN diag_error(s, "second_pass", "AS421")
    ELSE [s EXCEPT !.ext_file = ExtLines(s.ext_list)]

write_ent_base4_only(s, fopen_ok) ==
    IF s.ent_list = <<>> THEN s
    ELSE IF ~fopen_ok THEN diag_error(s, "second_pass", "AS423")
    ELSE [s EXCEPT !.ent_file =
            [k \in 1..Len(s.ent_list) |->
                s.ent_list[k].labels \o " "
                \o to_base4_letters(s.ent_list[k].addr, EXT_ENT_ADDR_WIDTH)]]

\* env: which of the three fopen(..., "w") calls succeed
second_pass(s, IC_final, DC_final, env) ==
    IF s.g_diag["second_pass"] > 0
    THEN [diag_error(s, "second_pass", "AS050") EXCEPT !.rc = -1]
    ELSE LET a == resolve_labels_in_place([s EXCEPT !.sp_run = TRUE])
             b == complete_entry_labels(a)
             c == write_ob_base4_only(b, IC_final, OB_ADDR_WIDTH_DEFAULT,
                                      DC_final, env.ob)
             d == write_ent_base4_only(c, env.ent)
             e == write_ext_base4_only(d, env.ext)
         IN  [e EXCEPT !.rc = 0]

first_pass_end(s, env) ==
    IF s.g_diag["first_pass"] = 0 /\ ~s.had_error
    THEN FirstPassReturn(second_pass(s, s.IC - IC_INIT_VALUE, s.DC, env))
    ELSE FirstPassReturn(s)

(***************************************************************************)
(* process_macros.c: the preprocessor.  <stem>.as is a sequence of lines,  *)
(* each a string ended by a newline in the file.  am is the state of       *)
(* <stem>.am: "absent", "old" (the content it had before the call) or      *)
(* "new" (the expansion of <stem>.as).                                     *)
(*   macro_table : the macros, each [name, body]                           *)
(*   cur         : index of the macro being defined, 0 for NULL            *)
(*   fout        : the lines written to <stem>.am.tmp                      *)
(*   fin         : the part of the current source line not yet read        *)
(*   env.as_ok, env.tmp_ok, env.rename_ok : fopen/fopen/rename succeed     *)
(***************************************************************************)
isspace(c) == c \in {" ", "\t", "\n"}

RECURSIVE ltrim(_)
ltrim(str) ==
    IF Len(str) > 0 /\ isspace(CharAt(str, 1))
    THEN ltrim(SubSeq(str, 2, Len(str)))
    ELSE str

RECURSIVE rtrim(_)
rtrim(str) ==
    IF Len(str) > 0 /\ isspace(CharAt(str, Len(str)))
    THEN rtrim(SubSeq(str, 1, Len(str) - 1))
    ELSE str

\* The characters of str before its first whitespace
RECURSIVE TokenPrefix(_)
TokenPrefix(str) ==
    IF Len(str) = 0 \/ isspace(CharAt(str, 1)) THEN ""
    ELSE CharAt(str, 1) \o TokenPrefix(SubSeq(str, 2, Len(str)))

first_token(line) == TokenPrefix(ltrim(line))

is_valid_macro_name(name) ==
    /\ Len(name) > 0
    /\ isalpha(CharAt(name, 1))
    /\ \A k \in 2..Len(name) :
          isalnum(CharAt(name, k)) \/ CharAt(name, k) = "_"

\* The text after the "mcro" token, "" standing for NULL
get_macro_name(line) ==
    rtrim(ltrim(SubSeq(line, Len(TokenPrefix(line)) + 1, Len(line))))

find_macro_none(tbl, name) == 0

\* Index of the first macro with the name, 0 for NULL
find_macro(tbl, name) ==
    IF \E k \in 1..Len(tbl) : tbl[k].name = name
    THEN CHOOSE k \in 1..Len(tbl) :
            tbl[k].name = name /\ \A j \in 1..(k - 1) : tbl[j].name # name
    ELSE 0

\* cur = add_macro(tbl, name)
add_macro(s, name) ==
    [s EXCEPT !.macro_table = Append(@, [name |-> name, body |-> <<>>]),
              !.cur = Len(s.macro_table) + 1]

append_macro_line_none(s, line) == s

append_macro_line(s, line) ==
    [s EXCEPT !.macro_table[s.cur].body = Append(@, line)]

\* fgets(line, sizeof(line), fin) on a file whose next line is text
fgets(text) == StrNCpy(text \o "\n", MAX_LINE_LEN - 1)

\* strchr(line, '\n') != NULL
HasNewline(buf) == Len(buf) > 0 /\ CharAt(buf, Len(buf)) = "\n"

\* What fgets left unread of the line, the newline included
Unread(text) ==
    SubSeq(text \o "\n", Len(fgets(text)) + 1, Len(text) + 1)

\* while ((ch = fgetc(fin)) != '\n' && ch != EOF) { }
drain(rest) == ""

\* The opening of the two files
process_macros_open(s, env) ==
    IF ~env.as_ok
    THEN [diag_error(s, "process_macros", "MC009") EXCEPT !.rc = -1]
    ELSE IF ~env.tmp_ok
    THEN [diag_error(s, "process_macros", "MC009") EXCEPT !.rc = -1]
    ELSE [s EXCEPT !.rc = 0, !.cur = 0, !.fout = <<>>, !.fin = "",
                   !.start_errs = s.g_diag["process_macros"]]

\* CASE 3: a line whose first token is "mcro"
MacroDefinition(s, p, name) ==
    IF Len(name) = 0
    THEN diag_error(s, "process_macros", "MC003")
    ELSE IF Len(name) > MACRO_NAME_MAX
    THEN diag_error(s, "process_macros", "MC004")
    ELSE IF ~is_valid_macro_name(name)
    THEN diag_error(s, "process_macros", "MC005")
    ELSE IF is_reserved_mnemonic(name) \/ is_register_name(name)
            \/ name = "mcro" \/ name = "mcroend"
    THEN diag_error(s, "process_macros", "MC006")
    ELSE IF find_macro(s.macro_table, name) # 0
    THEN diag_error(s, "process_macros", "MC007")
    ELSE add_macro(s, name)

\* CASE 1: inside a macro definition
InsideMacro(s, p, tok) ==
    IF tok = "mcroend"
    THEN IF Len(ltrim(SubSeq(p, 8, Len(p)))) # 0
         THEN [diag_error(s, "process_macros", "MC008") EXCEPT !.cur = 0]
         ELSE [s EXCEPT !.cur = 0]
    ELSE append_macro_line(s, p)

\* CASE 2 to 5: outside a macro definition
OutsideMacro(s, p, tok) ==
    IF StrNCpy(p, 4) = "mcro" /\ tok # "mcro" /\ tok # "mcroend"
    THEN diag_error(s, "process_macros", "MC002")
    ELSE IF tok = "mcro"
    THEN MacroDefinition(s, p, get_macro_name(p))
    ELSE IF Len(tok) # 0 /\ find_macro(s.macro_table, tok) # 0
    THEN [s EXCEPT !.fout = @ \o s.macro_table[find_macro(s.macro_table,
                                                          tok)].body]
    ELSE [s EXCEPT !.fout = Append(@, p)]

\* The line is trimmed and its first token taken; an overflow is reported.
TrimmedLine(s, p, had_overflow) ==
    IF s.cur # 0
    THEN InsideMacro(IF had_overflow
                     THEN diag_error(s, "process_macros", "MC001") ELSE s,
                     p, first_token(p))
    ELSE OutsideMacro(IF had_overflow
                      THEN diag_error(s, "process_macros", "MC001") ELSE s,
                      p, first_token(p))

\* One iteration of the line loop: text is what the file holds up to the
\* next newline, line_no_ the number of the line.
process_macros_line(s, text, line_no_) ==
    TrimmedLine([(IF line_no_ > MAX_SOURCE_LINES
                  THEN diag_error(s, "process_macros", "MC010") ELSE s)
                    EXCEPT !.fin = IF ~HasNewline(fgets(text))
                                   THEN drain(Unread(text))
                                   ELSE Unread(text)],
                rtrim(ltrim(fgets(text))), ~HasNewline(fgets(text)))

\* After fclose: the temporary file is removed or renamed.
MacroFinish(s, env) ==
    IF s.g_diag["process_macros"] > s.start_errs
    THEN [s EXCEPT !.rc = -1, !.fout = <<>>, !.cur = 0]
    ELSE IF ~env.rename_ok
    THEN \* remove(file_am) has already been done
         [diag_error(s, "process_macros", "MC_FILE_RENAME")
            EXCEPT !.rc = -1, !.am_file = "absent", !.fout = <<>>, !.cur = 0]
    ELSE [s EXCEPT !.rc = 0, !.am_file = "new", !.fout = <<>>, !.cur = 0]

\* The end of the input: an open definition is reported first.
process_macros_end(s, env) ==
    IF s.cur # 0
    THEN MacroFinish(diag_error(s, "process_macros",
                                "MC_UNTERMINATED_MACRO"), env)
    ELSE MacroFinish(s, env)

(***************************************************************************)
(* words.c and functions.c on the text of a statement: split_operands and  *)
(* the classification of an operand token.                                 *)
(***************************************************************************)
trim_inplace(str) == rtrim(ltrim(str))

\* strchr(str + from - 1, c): the position of the first c at or after from,
\* 0 for NULL
StrChrFrom(str, c, from) ==
    IF \E k \in from..Len(str) : CharAt(str, k) = c
    THEN CHOOSE k \in from..Len(str) :
            CharAt(str, k) = c /\ \A j \in from..(k - 1) : CharAt(str, j) # c
    ELSE 0

\* sc = strchr(text, COMMENT_CHAR); if (sc) *sc = '\0';
StripComment(text) ==
    IF StrChrFrom(text, ";", 1) = 0 THEN text
    ELSE SubSeq(text, 1, StrChrFrom(text, ";", 1) - 1)

\* The operand text p: the comment stripped, the mnemonic token skipped
OperandTail(text) ==
    trim_inplace(SubSeq(trim_inplace(StripComment(text)),
                        Len(TokenPrefix(trim_inplace(StripComment(text)))) + 1,
                        Len(trim_inplace(StripComment(text)))))

\* The comma counting loop, with the cursor at position k of p
RECURSIVE CountCommasFrom(_, _)
CountCommasFrom(p, k) ==
    IF k > Len(p) THEN 0
    ELSE IF CharAt(p, k) = "["
    THEN IF StrChrFrom(p, "]", k + 1) = 0 THEN 0
         ELSE CountCommasFrom(p, StrChrFrom(p, "]", k + 1) + 1)
    ELSE (IF CharAt(p, k) = "," THEN 1 ELSE 0) + CountCommasFrom(p, k + 1)

\* The two operands cut at the comma at position comma of p
SplitAtComma(p, comma) ==
    IF trim_inplace(SubSeq(p, 1, comma - 1)) = ""
       \/ trim_inplace(SubSeq(p, comma + 1, Len(p))) = ""
    THEN [n |-> 0, src |-> "", dst |-> "", cut |-> comma]
    ELSE [n |-> OPS_TWO, src |-> trim_inplace(SubSeq(p, 1, comma - 1)),
          dst |-> trim_inplace(SubSeq(p, comma + 1, Len(p))), cut |-> comma]

\* split_operands on the operand text p; "" stands for a NULL token
SplitTail(p) ==
    IF p = "" THEN [n |-> 0, src |-> "", dst |-> "", cut |-> 0]
    ELSE IF CountCommasFrom(p, 1) > 1
    THEN [n |-> 0, src |-> "", dst |-> "", cut |-> 0]
    ELSE IF StrChrFrom(p, ",", 1) = 0
    THEN [n |-> OPS_ONE, src |-> trim_inplace(p), dst |-> "", cut |-> 0]
    ELSE SplitAtComma(p, StrChrFrom(p, ",", 1))

split_operands(text) == SplitTail(OperandTail(text))

\* is_register_token: 'r' or 'R' and a digit 0..7
is_register_token(token) == is_register_name(token)

\* strtol(tok + 1, &end, 10) on a text made of an optional '-' and digits
RECURSIVE DecimalValue(_)
DecimalValue(digits) ==
    IF Len(digits) = 0 THEN 0
    ELSE DecimalValue(SubSeq(digits, 1, Len(digits) - 1)) * 10
         + (IndexIn(CharAt(digits, Len(digits)), DigitChars) - 1)

IsDigits(str) == Len(str) > 0 /\ \A k \in 1..Len(str) : isdigit(CharAt(str, k))

ImmediateOf(tok) ==
    IF IsDigits(SubSeq(tok, 2, Len(tok)))
    THEN Imm(DecimalValue(SubSeq(tok, 2, Len(tok))))
    ELSE IF Len(tok) > 2 /\ CharAt(tok, 2) = "-"
            /\ IsDigits(SubSeq(tok, 3, Len(tok)))
    THEN Imm(0 - DecimalValue(SubSeq(tok, 3, Len(tok))))
    ELSE ImmBad

\* validate_register_slice, as the error it leads to ("" for REG_VALID)
validate_register_slice(slice) ==
    IF Len(slice) = 0 THEN "AS113"
    ELSE IF CharAt(slice, 1) \in {"r", "R"}
    THEN IF is_register_token(slice) THEN "" ELSE "AS114"
    ELSE "AS113"

\* The checks of parse_matrix_operand once the four brackets are located
MatrixParsed(operand, b1, b2, b3, b4) ==
    IF b1 = 1 THEN MatBad("AS110")
    ELSE IF b1 - 1 > MAX_LABEL_LEN THEN MatBad("AS020")
    ELSE IF trim_inplace(SubSeq(operand, b1 + 1, b2 - 1)) = ""
    THEN MatBad("AS111")
    ELSE IF validate_register_slice(
               trim_inplace(SubSeq(operand, b1 + 1, b2 - 1))) # ""
    THEN MatBad(validate_register_slice(
                   trim_inplace(SubSeq(operand, b1 + 1, b2 - 1))))
    ELSE IF ltrim(SubSeq(operand, b2 + 1, b3 - 1)) # ""
    THEN MatBad("AS112")
    ELSE IF trim_inplace(SubSeq(operand, b3 + 1, b4 - 1)) = ""
    THEN MatBad("AS111")
    ELSE IF validate_register_slice(
               trim_inplace(SubSeq(operand, b3 + 1, b4 - 1))) # ""
    THEN MatBad(validate_register_slice(
                   trim_inplace(SubSeq(operand, b3 + 1, b4 - 1))))
    ELSE Mat(SubSeq(operand, 1, b1 - 1),
             IndexIn(CharAt(trim_inplace(SubSeq(operand, b1 + 1, b2 - 1)), 2),
                     DigitChars) - 1,
             IndexIn(CharAt(trim_inplace(SubSeq(operand, b3 + 1, b4 - 1)), 2),
                     DigitChars) - 1)

\* find_bracket_pair(start): the second pair is looked for after b2
SecondPair(operand, b1, b2) ==
    IF StrChrFrom(operand, "[", b2 + 1) = 0
       \/ StrChrFrom(operand, "]", StrChrFrom(operand, "[", b2 + 1) + 1) = 0
    THEN MatBad("AS110")
    ELSE MatrixParsed(operand, b1, b2, StrChrFrom(operand, "[", b2 + 1),
                      StrChrFrom(operand, "]",
                                 StrChrFrom(operand, "[", b2 + 1) + 1))

\* parse_matrix_operand on a token that holds a '['
parse_matrix_operand(operand) ==
    IF StrChrFrom(operand, "]", StrChrFrom(operand, "[", 1) + 1) = 0
    THEN MatBad("AS110")
    ELSE SecondPair(operand, StrChrFrom(operand, "[", 1),
                    StrChrFrom(operand, "]", StrChrFrom(operand, "[", 1) + 1))

\* The operand a token stands for: get_addr_method decides the kind, and the
\* parser of the kind reads the rest.
OperandOf(tok) ==
    IF ltrim(tok) = "" THEN NoOperand
    ELSE IF CharAt(ltrim(tok), 1) = "#" THEN ImmediateOf(tok)
    ELSE IF is_register_token(ltrim(tok))
    THEN Reg(IndexIn(CharAt(ltrim(tok), 2), DigitChars) - 1)
    ELSE IF StrChrFrom(ltrim(tok), "[", 1) # 0 THEN parse_matrix_operand(tok)
    ELSE Direct(tok)

\* The first token of the statement, as first_pass cuts it
RECURSIVE CommandToken(_)
CommandToken(str) ==
    IF Len(str) = 0 \/ isspace(CharAt(str, 1))
       \/ CharAt(str, 1) \in {",", "[", ";"}
    THEN ""
    ELSE CharAt(str, 1) \o CommandToken(SubSeq(str, 2, Len(str)))

\* The line a statement text is, without a label
Statement(text) ==
    [BlankLine EXCEPT !.tok = CommandToken(text),
                      !.n = split_operands(text).n,
                      !.src = OperandOf(split_operands(text).src),
                      !.dst = OperandOf(split_operands(text).dst),
                      !.text = text,
                      !.cut = split_operands(text).cut]

(***************************************************************************)
(* The lines a <stem>.am is made of in this model.                         *)
(***************************************************************************)
L_stop     == Instr0(NoLabel, "stop")
L_Xstop    == Instr0(Lbl("X"), "stop")
L_jmpX     == Instr1(NoLabel, "jmp", Direct("X"))
L_Xdata    == DataDir(Lbl("X"), ".data", <<Num(1)>>)
L_string   == StringDir(NoLabel, ".string", <<97>>, TRUE)
L_externX  == ArgDir(NoLabel, ".extern", "X", FALSE)
L_entryX   == ArgDir(NoLabel, ".entry", "X", FALSE)
\* "mov r1": wrong operand count, reported by opmodes.c
L_mov_r1   == Instr1(NoLabel, "mov", Reg(1))
\* "prn #x": bad immediate, reported by words.c
L_prn_bad  == Instr1(NoLabel, "prn", ImmBad)
\* "jmp M[r1": bad matrix operand, reported by functions.c
L_jmp_mat  == Instr1(NoLabel, "jmp", MatBad("AS110"))
\* ".data 1,": trailing comma, reported by functions.c
L_data_bad == DataDir(NoLabel, ".data", <<Num(1), Comma>>)
L_unknown  == Instr0(NoLabel, "foo")
L_badlabel == Instr0(Lbl("1x"), "stop")
\* ".mat [10][10]": one hundred zero words
L_mat100   == MatDir(NoLabel, ".mat", 10, 10, <<>>)

\* The programs of Spec: references, definitions, declarations, and lines
\* with an error in an instruction or in a directive.
Lines ==
    {L_stop, L_Xstop, L_jmpX, L_Xdata, L_string, L_externX, L_entryX,
     L_mov_r1, L_prn_bad, L_data_bad}

\* The programs of SpecSize: up to three hundred data words, and lines with
\* an error in the operand, the mnemonic or the label.
SizeLines ==
    {L_mat100, L_stop, L_jmp_mat, L_unknown, L_badlabel}

\* The lines of the <stem>.as of the specifications about the passes: a
\* statement and the opening of a macro definition.
AsBasicLines == {"stop", "mcro m"}

\* A line of n characters: a statement followed by a comment
RECURSIVE CommentOf(_)
CommentOf(n) == IF n = 0 THEN "" ELSE "x" \o CommentOf(n - 1)

LongLine(n) == "stop ;" \o CommentOf(n - 6)

\* The lines of the <stem>.as of SpecMacro: a definition, its end, an
\* invocation, a statement with blanks around it, a malformed opening, and
\* lines of 79, 80 and 81 characters.
AsLines ==
    {"mcro m", "mcroend", "m", "  inc r1  ", "mcrom",
     LongLine(MAX_LINE_LEN - 2), LongLine(MAX_LINE_LEN - 1),
     LongLine(MAX_LINE_LEN)}

\* The programs of SpecCase: statements with the keyword in upper or mixed
\* case, and two in lower case.
L_DATA   == DataDir(NoLabel, ".DATA", <<Num(1)>>)
L_String == StringDir(NoLabel, ".String", <<97>>, TRUE)
L_MAT    == MatDir(NoLabel, ".MAT", 1, 1, <<>>)
L_MOV    == Instr2(NoLabel, "MOV", Reg(3), Reg(5))
L_ENTRY  == ArgDir(NoLabel, ".ENTRY", "X", FALSE)

CaseLines == {L_DATA, L_String, L_MAT, L_MOV, L_ENTRY, L_stop, L_Xdata}

\* A label of the maximum length, 31 characters
Label31 == "L" \o CommentOf(MAX_LABEL_LEN - 1)

\* The programs of SpecLabel: definitions of a short label, of a label that
\* is a mnemonic in upper case and of a label of 31 characters, and
\* references to the short and to the long label as a Direct operand, as
\* the base of a Matrix operand and in .entry.
L_STOPstop  == Instr0(Lbl("STOP"), "stop")
L_L31stop   == Instr0(Lbl(Label31), "stop")
L_jmpL31    == Instr1(NoLabel, "jmp", Direct(Label31))
L_jmpMatL31 == Instr1(NoLabel, "jmp", Mat(Label31, 1, 2))
L_entryL31  == ArgDir(NoLabel, ".entry", Label31, FALSE)

LabelLines ==
    {L_Xstop, L_STOPstop, L_L31stop, L_jmpX, L_jmpL31, L_jmpMatL31,
     L_entryX, L_entryL31}

\* The programs of SpecText: statements given as text, with operand texts
\* that hold no comma, one comma, two commas, a comma with nothing on one
\* side, a comma between brackets, and a comma in a comment.
OperandTexts ==
    {"r3", "r1, r2", "r1,, r2", "r1, r2, r3", "r1,", ", r2", "#5, r2",
     "M[r1][r2], r3", "M[r1,r2], r3", "M[r1,r2]", "X ; a, b"}

StatementTexts ==
    {m \o " " \o tl : m \in {"mov", "jmp", "rts", "stop"}, tl \in OperandTexts}
    \cup {"rts", "stop"}

TextLines == {Statement(text) : text \in StatementTexts}

\* The operands of the one-instruction programs: one of each addressing
\* mode, and a second register.
InstrOperands == {Imm(5), Direct("X"), Mat("X", 1, 2), Reg(3), Reg(5)}

\* The programs of SpecInstr: every mnemonic with no operand, with each
\* operand and with each pair of operands, and two instructions with an
\* operand the encoder rejects.
InstrLines ==
    {Instr0(NoLabel, m) : m \in DOMAIN InstructionNames}
    \cup {Instr1(NoLabel, m, a) :
             m \in DOMAIN InstructionNames, a \in InstrOperands}
    \cup {Instr2(NoLabel, m, a, b) :
             m \in DOMAIN InstructionNames, a \in InstrOperands,
             b \in InstrOperands}
    \cup {L_prn_bad, L_jmp_mat}

(***************************************************************************)
(* The state machine.                                                      *)
(***************************************************************************)
VARIABLES
    pc,            \* where main is: "main", "stem", "macros", "first_pass",
                   \* "lines", "cleanup", "exit"
    argc,          \* argument count of the invocation
    i,             \* index of the stem being processed
    exit_code,     \* value returned by main, -1 while it runs
    g_diag,        \* error_count of the static g_diag of each file
    reported,      \* codes of the diagnostics printed for the current stem
    am_file,       \* <stem>.am of the current stem
    macro_rc,      \* what process_macros returned for the current stem
    line_no,       \* lines of <stem>.am read so far
    IC, DC, symbol_table, ic_image, data_img, ent_list, ext_list,
    had_error,     \* first_pass's local flag
    line_buffer,   \* first_pass's local buffer: the line read last
    macro_table,   \* main's MacroTable
    cur,           \* process_macros: the macro being defined, 0 for NULL
    fout,          \* the lines written to <stem>.am.tmp
    fin,           \* the part of the current line of <stem>.as not yet read
    start_errs,    \* process_macros: error count when the loop started
    as_line,       \* the line of <stem>.as read last
    dc_at_def,     \* history: DC when each DATA label was recorded
    sp_run,        \* history: second_pass got past its guard
    ob_reached,    \* history: write_ob_base4_only was entered
    ob_file, ent_file, ext_file    \* the outputs of the current stem

vars == <<pc, argc, i, exit_code, g_diag, reported, am_file, macro_rc,
          line_no, IC, DC, symbol_table, ic_image, data_img, ent_list,
          ext_list, had_error, dc_at_def, sp_run, ob_reached, ob_file,
          ent_file, ext_file, line_buffer, macro_table, cur, fout, fin,
          start_errs, as_line>>

\* The state as the record the translated functions work on.
Cur ==
    [IC |-> IC, DC |-> DC, symbol_table |-> symbol_table,
     ic_image |-> ic_image, data_img |-> data_img, ent_list |-> ent_list,
     ext_list |-> ext_list, had_error |-> had_error, g_diag |-> g_diag,
     reported |-> reported, dc_at_def |-> dc_at_def, sp_run |-> sp_run,
     ob_reached |-> ob_reached, ob_file |-> ob_file, ent_file |-> ent_file,
     ext_file |-> ext_file, am_file |-> am_file, macro_table |-> macro_table,
     cur |-> cur, fout |-> fout, fin |-> fin, start_errs |-> start_errs,
     rc |-> 0]

Store(s) ==
    /\ IC' = s.IC /\ DC' = s.DC /\ symbol_table' = s.symbol_table
    /\ ic_image' = s.ic_image /\ data_img' = s.data_img
    /\ ent_list' = s.ent_list /\ ext_list' = s.ext_list
    /\ had_error' = s.had_error /\ g_diag' = s.g_diag
    /\ reported' = s.reported /\ dc_at_def' = s.dc_at_def
    /\ sp_run' = s.sp_run /\ ob_reached' = s.ob_reached
    /\ ob_file' = s.ob_file /\ ent_file' = s.ent_file
    /\ ext_file' = s.ext_file /\ am_file' = s.am_file
    /\ macro_table' = s.macro_table /\ cur' = s.cur /\ fout' = s.fout
    /\ fin' = s.fin /\ start_errs' = s.start_errs

\* The per-file state main declares at the top of its loop body.
FreshStem(s) ==
    [s EXCEPT !.IC = IC_INIT_VALUE, !.DC = 0, !.symbol_table = <<>>,
              !.ic_image = <<>>, !.data_img = <<>>, !.ent_list = <<>>,
              !.ext_list = <<>>, !.had_error = FALSE, !.reported = {},
              !.dc_at_def = <<>>, !.sp_run = FALSE, !.ob_reached = FALSE,
              !.ob_file = NoFile, !.ent_file = NoFile, !.ext_file = NoFile,
              !.macro_table = <<>>, !.cur = 0, !.fout = <<>>, !.fin = "",
              !.start_errs = 0]

Init ==
    /\ pc = "main"
    /\ argc \in 1..(MaxStems + 1)
    /\ i = 1
    /\ exit_code = -1
    /\ g_diag = [f \in DiagFiles |-> 0]
    /\ reported = {}
    /\ am_file = "absent"
    /\ macro_rc = 0
    /\ line_no = 0
    /\ IC = IC_INIT_VALUE /\ DC = 0
    /\ symbol_table = <<>> /\ ic_image = <<>> /\ data_img = <<>>
    /\ ent_list = <<>> /\ ext_list = <<>>
    /\ had_error = FALSE
    /\ dc_at_def = <<>>
    /\ sp_run = FALSE /\ ob_reached = FALSE
    /\ ob_file = NoFile /\ ent_file = NoFile /\ ext_file = NoFile
    /\ line_buffer = BlankLine
    /\ macro_table = <<>> /\ cur = 0 /\ fout = <<>> /\ fin = ""
    /\ start_errs = 0
    /\ as_line = ""

\* main, lines 18-27: the argument check.
MainStart ==
    /\ pc = "main"
    /\ IF argc < 2
       THEN /\ Store(diag_error(Cur, "main", "AS000"))
            /\ exit_code' = 1
            /\ pc' = "exit"
       ELSE /\ Store(Cur)
            /\ exit_code' = exit_code
            /\ pc' = "stem"
    /\ UNCHANGED <<argc, i, macro_rc, line_no, line_buffer, as_line>>

\* main, lines 30-47: the head of the loop over the stems.  What the disk
\* holds as <stem>.am before the run is an input.
BeginStem ==
    /\ pc = "stem"
    /\ i < argc
    /\ \E am \in {"absent", "old"} :
          Store([FreshStem(Cur) EXCEPT !.am_file = am])
    /\ macro_rc' = 0
    /\ line_no' = 0
    /\ pc' = "macros"
    /\ UNCHANGED <<argc, i, exit_code, line_buffer, as_line>>

\* main, lines 50-55: process_macros has returned.
MainAfterMacros(m) ==
    /\ macro_rc' = m.rc
    /\ IF m.rc # 0
       THEN /\ Store(diag_error(m, "main", "AS101"))
            /\ pc' = "cleanup"
       ELSE /\ Store(m)
            /\ pc' = "first_pass"

\* process_macros, lines 294-320: the two fopen; a failure returns to main.
MacroLoopOrReturn(m) ==
    IF m.rc # 0
    THEN MainAfterMacros(m)
    ELSE Store(m) /\ macro_rc' = macro_rc /\ pc' = "macro_lines"

ProcessMacrosOpen ==
    /\ pc = "macros"
    /\ \E as_ok \in BOOLEAN, tmp_ok \in BOOLEAN :
          MacroLoopOrReturn(
             process_macros_open(Cur, [as_ok |-> as_ok, tmp_ok |-> tmp_ok]))
    /\ UNCHANGED <<argc, i, exit_code, line_no, line_buffer, as_line>>

\* process_macros, lines 323-456: one iteration of the line loop.  fgets
\* goes on where the last read stopped; at the start of a line the line is
\* one of AS.
ProcessMacrosLineFrom(AS) ==
    /\ pc = "macro_lines"
    /\ line_no < MaxAsLines
    /\ \E text \in (IF fin = "" THEN AS ELSE {fin}) :
          /\ Store(process_macros_line(Cur, text, line_no + 1))
          /\ as_line' = text
    /\ line_no' = line_no + 1
    /\ UNCHANGED <<pc, argc, i, exit_code, macro_rc, line_buffer>>

\* process_macros, lines 458-487, and main, lines 50-55: the end of the
\* input, the fate of the temporary file and the return to main.
ProcessMacrosEOF ==
    /\ pc = "macro_lines"
    /\ \E rename_ok \in BOOLEAN :
          MainAfterMacros(process_macros_end(Cur, [rename_ok |-> rename_ok]))
    /\ line_no' = 0
    /\ as_line' = ""
    /\ UNCHANGED <<argc, i, exit_code, line_buffer>>

\* first_pass, lines 735-747: opening <stem>.am; on failure first_pass
\* returns 1 and main reports AS102.
FirstPassOpen ==
    /\ pc = "first_pass"
    /\ \E fopen_ok \in BOOLEAN :
          IF ~fopen_ok
          THEN /\ Store(diag_error(diag_error(Cur, "first_pass", "AS040"),
                                   "main", "AS102"))
               /\ pc' = "cleanup"
          ELSE \* initialize_file_processing
               /\ Store([Cur EXCEPT !.symbol_table = <<>>,
                                    !.IC = IC_INIT_VALUE, !.DC = 0])
               /\ pc' = "lines"
    /\ UNCHANGED <<argc, i, exit_code, macro_rc, line_no, line_buffer,
                   as_line>>

\* first_pass, lines 750-953: one iteration of the line loop, the line read
\* being one of LS.
FirstPassLineFrom(LS, max_lines) ==
    /\ pc = "lines"
    /\ line_no < max_lines
    /\ \E l \in LS : Store(first_pass_line(Cur, l)) /\ line_buffer' = l
    /\ line_no' = line_no + 1
    /\ UNCHANGED <<pc, argc, i, exit_code, macro_rc, as_line>>

FirstPassLine == FirstPassLineFrom(Lines, MaxLines)

FirstPassSizeLine == FirstPassLineFrom(SizeLines, MaxLines)

FirstPassInstrLine == FirstPassLineFrom(InstrLines, MaxInstrLines)

FirstPassCaseLine == FirstPassLineFrom(CaseLines, MaxLines)

FirstPassStopLine == FirstPassLineFrom({L_stop}, MaxInstrLines)

FirstPassLabelLine == FirstPassLineFrom(LabelLines, MaxLines)

FirstPassTextLine == FirstPassLineFrom(TextLines, MaxInstrLines)

ProcessMacrosBasicLine == ProcessMacrosLineFrom(AsBasicLines)

ProcessMacrosLine == ProcessMacrosLineFrom(AsLines)

\* Which of the fopen(..., "w") of the three writers succeed: the output
\* directory is writable, or it is not.
OutputEnvs ==
    {[ob |-> TRUE, ent |-> TRUE, ext |-> TRUE],
     [ob |-> FALSE, ent |-> FALSE, ext |-> FALSE]}

\* first_pass, lines 955-980, and main, lines 58-64: end of file, the call
\* of second_pass, the return value and main's reaction to it.
MainAfterFirstPass(r) ==
    IF r.rc # 0 THEN Store(diag_error(r, "main", "AS102")) ELSE Store(r)

FirstPassEOF ==
    /\ pc = "lines"
    /\ \E env \in OutputEnvs : MainAfterFirstPass(first_pass_end(Cur, env))
    /\ pc' = "cleanup"
    /\ line_buffer' = BlankLine
    /\ UNCHANGED <<argc, i, exit_code, macro_rc, line_no, as_line>>

\* main, lines 69-79: the per-file teardown, then on to the next stem.
Cleanup ==
    /\ pc = "cleanup"
    /\ Store([Cur EXCEPT !.symbol_table = <<>>, !.ic_image = <<>>,
                         !.data_img = <<>>, !.ent_list = <<>>,
                         !.ext_list = <<>>, !.macro_table = <<>>])
    /\ i' = i + 1
    /\ pc' = "stem"
    /\ UNCHANGED <<argc, exit_code, macro_rc, line_no, line_buffer, as_line>>

\* main, line 82.
MainReturn ==
    /\ pc = "stem"
    /\ i >= argc
    /\ exit_code' = IF g_diag["main"] > 0 THEN 1 ELSE 0
    /\ pc' = "exit"
    /\ UNCHANGED <<argc, i, g_diag, reported, am_file, macro_rc, line_no,
                   IC, DC, symbol_table, ic_image, data_img, ent_list,
                   ext_list, had_error, dc_at_def, sp_run, ob_reached,
                   ob_file, ent_file, ext_file, line_buffer, macro_table,
                   cur, fout, fin, start_errs, as_line>>

Next ==
    \/ MainStart
    \/ BeginStem
    \/ ProcessMacrosOpen
    \/ ProcessMacrosBasicLine
    \/ ProcessMacrosEOF
    \/ FirstPassOpen
    \/ FirstPassLine
    \/ FirstPassEOF
    \/ Cleanup
    \/ MainReturn

Spec == Init /\ [][Next]_vars

\* The same program run on the sources made of SizeLines.
NextSize ==
    \/ MainStart
    \/ BeginStem
    \/ ProcessMacrosOpen
    \/ ProcessMacrosBasicLine
    \/ ProcessMacrosEOF
    \/ FirstPassOpen
    \/ FirstPassSizeLine
    \/ FirstPassEOF
    \/ Cleanup
    \/ MainReturn

SpecSize == Init /\ [][NextSize]_vars

\* The same program run on the sources that hold one instruction.
NextInstr ==
    \/ MainStart
    \/ BeginStem
    \/ ProcessMacrosOpen
    \/ ProcessMacrosBasicLine
    \/ ProcessMacrosEOF
    \/ FirstPassOpen
    \/ FirstPassInstrLine
    \/ FirstPassEOF
    \/ Cleanup
    \/ MainReturn

SpecInstr == Init /\ [][NextInstr]_vars

\* The same program run on the sources with keywords in upper case.
NextCase ==
    \/ MainStart
    \/ BeginStem
    \/ ProcessMacrosOpen
    \/ ProcessMacrosBasicLine
    \/ ProcessMacrosEOF
    \/ FirstPassOpen
    \/ FirstPassCaseLine
    \/ FirstPassEOF
    \/ Cleanup
    \/ MainReturn

SpecCase == Init /\ [][NextCase]_vars

\* The program run on the sources with macros and long lines.
NextMacro ==
    \/ MainStart
    \/ BeginStem
    \/ ProcessMacrosOpen
    \/ ProcessMacrosLine
    \/ ProcessMacrosEOF
    \/ FirstPassOpen
    \/ FirstPassStopLine
    \/ FirstPassEOF
    \/ Cleanup
    \/ MainReturn

SpecMacro == Init /\ [][NextMacro]_vars

\* The same program run on the sources that define and use labels.
NextLabel ==
    \/ MainStart
    \/ BeginStem
    \/ ProcessMacrosOpen
    \/ ProcessMacrosBasicLine
    \/ ProcessMacrosEOF
    \/ FirstPassOpen
    \/ FirstPassLabelLine
    \/ FirstPassEOF
    \/ Cleanup
    \/ MainReturn

SpecLabel == Init /\ [][NextLabel]_vars

\* The same program run on the sources that hold one statement given as
\* text.
NextText ==
    \/ MainStart
    \/ BeginStem
    \/ ProcessMacrosOpen
    \/ ProcessMacrosBasicLine
    \/ ProcessMacrosEOF
    \/ FirstPassOpen
    \/ FirstPassTextLine
    \/ FirstPassEOF
    \/ Cleanup
    \/ MainReturn

SpecText == Init /\ [][NextText]_vars

(***************************************************************************)
(* Vocabulary of the properties.                                           *)
(***************************************************************************)
Range(f) == {f[k] : k \in DOMAIN f}

Count(seq, v) == Cardinality({k \in DOMAIN seq : seq[k] = v})

\* Diagnostics of all translation units together
TotalErrors ==
    g_diag["main"] + g_diag["process_macros"] + g_diag["first_pass"]
    + g_diag["words"] + g_diag["functions"] + g_diag["opmodes"]
    + g_diag["second_pass"]

MainCodes       == {"AS000", "AS101", "AS102"}
MacroCodes      == {"MC001", "MC002", "MC003", "MC004", "MC005", "MC006",
                    "MC007", "MC008", "MC009", "MC010",
                    "MC_UNTERMINATED_MACRO", "MC_FILE_RENAME"}
SecondPassCodes == {"AS050", "AS_OB_TOO_LONG", "AS_FILE_OPEN", "AS421",
                    "AS423"}

\* The diagnostics printed while the first pass read the current stem, by
\* first_pass itself or by the functions it calls
FirstPassReported ==
    reported \ (MainCodes \cup MacroCodes \cup SecondPassCodes)

NoOutputs == ob_file = NoFile /\ ent_file = NoFile /\ ext_file = NoFile

\* (IC_final - 100) + DC_final
WordsTotal == (IC - IC_INIT_VALUE) + DC

SymValue(name) == symbol_table[SymIndex(symbol_table, name)].value

\* The words of the code image that carry a label reference
LabelWords == {k \in DOMAIN ic_image : ic_image[k].label # ""}

(***************************************************************************)
(* C1: if any error diagnostic is reported while the first pass processes  *)
(* a stem, by first_pass or by a function it calls, then second_pass is    *)
(* not run for the stem and none of .ob, .ent, .ext is written.            *)
(***************************************************************************)
C1_ErrorBlocksSecondPass ==
    (pc = "cleanup" /\ FirstPassReported # {}) => (~sp_run /\ NoOutputs)

(***************************************************************************)
(* C2: the exit code is 1 if at least one error diagnostic was reported by *)
(* any stage for any stem (or no stem was given), and 0 only if none was.  *)
(***************************************************************************)
C2_ExitCodeReflectsErrors ==
    pc = "exit" => (exit_code = 1 <=> (TotalErrors > 0 \/ argc < 2))

(***************************************************************************)
(* C3: whenever process_macros returns failure, <stem>.am is in the state  *)
(* it had before the call.                                                 *)
(***************************************************************************)
C3_AmUnchangedOnFailure ==
    [][(pc \in {"macros", "macro_lines"} /\ macro_rc' # 0)
          => am_file' = am_file]_vars

(***************************************************************************)
(* C4: a program with (IC_final - 100) + DC_final > 255 has an error       *)
(* reported, write_ob_base4_only is never reached and no .ob is written;   *)
(* every .ob written describes a program with at most 255 words.           *)
(***************************************************************************)
C4_SizeLimit ==
    /\ WordsTotal > OB_WORD_LIMIT =>
          (FirstPassReported # {} /\ ~ob_reached /\ ob_file = NoFile)
    /\ ob_file # NoFile => WordsTotal <= OB_WORD_LIMIT

\* The first pass has read a program of more than 255 words.
C4_Witness ==
    /\ pc = "cleanup"
    /\ WordsTotal > OB_WORD_LIMIT
    /\ "AS_SUM_GE_LIMIT" \in reported
    /\ ob_file = NoFile

(***************************************************************************)
(* C5: whenever .ob is written, every code word with a label reference is  *)
(* Relocatable with the value of the symbol of that name as payload, or    *)
(* External with payload 0 and its address in that extern's usage list; a  *)
(* reference to a name that is neither defined nor declared .extern is     *)
(* reported as an error and no .ob is produced.                            *)
(***************************************************************************)
ResolvedWord(w) ==
    \/ /\ w.are = ARE_REL
       /\ find_symbol(symbol_table, w.label)
       /\ w.value = SymValue(w.label)
    \/ /\ w.are = ARE_EXT
       /\ w.value = 0
       /\ \E x \in DOMAIN ext_list :
             /\ ext_list[x].labels = w.label
             /\ w.address \in Range(ext_list[x].addr_head)

UndefinedReference(w) ==
    /\ ~find_symbol(symbol_table, w.label)
    /\ ExtIndex(ext_list, w.label) = 0

C5_ReferencesResolved ==
    pc = "cleanup" =>
       /\ ob_file # NoFile => \A k \in LabelWords : ResolvedWord(ic_image[k])
       /\ (\E k \in LabelWords : UndefinedReference(ic_image[k])) =>
             (reported # {} /\ ob_file = NoFile)

(***************************************************************************)
(* C6: when the second pass runs, each entry record has the address of the *)
(* symbol-table entry of the same name; that symbol exists and the name is *)
(* not declared with .extern.                                              *)
(***************************************************************************)
C6_EntriesAreDefinedSymbols ==
    (pc = "cleanup" /\ sp_run) =>
       \A k \in DOMAIN ent_list :
          /\ find_symbol(symbol_table, ent_list[k].labels)
          /\ ent_list[k].addr = SymValue(ent_list[k].labels)
          /\ ExtIndex(ext_list, ent_list[k].labels) = 0

(***************************************************************************)
(* C7: after resolve_labels_in_place, the address of every code word whose *)
(* label reference is the name of a declared extern occurs exactly once in *)
(* that extern's usage list, and the address of a word resolved to a       *)
(* symbol-table entry occurs in no usage list.                             *)
(***************************************************************************)
C7_ExternUsageExact ==
    (pc = "cleanup" /\ sp_run) =>
       \A k \in LabelWords :
          LET w == ic_image[k]
              x == ExtIndex(ext_list, w.label)
          IN  /\ x # 0 => Count(ext_list[x].addr_head, w.address) = 1
              /\ find_symbol(symbol_table, w.label) =>
                    \A y \in DOMAIN ext_list :
                       w.address \notin Range(ext_list[y].addr_head)

(***************************************************************************)
(* C8: when the object file is produced, the k-th word of the data image   *)
(* (from 0) has address IC_final + k.                                      *)
(***************************************************************************)
C8_DataAfterCode ==
    (pc = "cleanup" /\ ob_file # NoFile) =>
       \A k \in DOMAIN data_img : data_img[k].address = IC + (k - 1)

(***************************************************************************)
(* C9: the value the second pass uses for a DATA symbol (payload of the    *)
(* words that reference it, address of its .ent record) is IC_final plus   *)
(* the data counter at the label's definition.                             *)
(***************************************************************************)
C9_DataSymbolValue ==
    (pc = "cleanup" /\ sp_run) =>
       \A d \in DOMAIN dc_at_def :
          LET name == dc_at_def[d].key
              want == IC + dc_at_def[d].dc
          IN  /\ SymValue(name) = want
              /\ \A k \in LabelWords :
                    ic_image[k].label = name => ic_image[k].value = want
              /\ \A e \in DOMAIN ent_list :
                    ent_list[e].labels = name => ent_list[e].addr = want

(***************************************************************************)
(* C10: after pass one, each code word's address is 1 greater than that of *)
(* the word before it (the first is 100), and each data word's address is  *)
(* 1 greater than that of the data word before it.                         *)
(***************************************************************************)
C10_ConsecutiveAddresses ==
    pc \in {"lines", "cleanup"} =>
       /\ \A k \in DOMAIN ic_image :
             ic_image[k].address = IC_INIT_VALUE + (k - 1)
       /\ \A k \in DOMAIN data_img :
             k > 1 => data_img[k].address = data_img[k - 1].address + 1

(***************************************************************************)
(* C11: after pass one over any lines, lines with an error reported        *)
(* part-way through encoding included, the code image has IC - 100 words   *)
(* and the data image has DC words.                                        *)
(***************************************************************************)
C11_ImageSizes ==
    pc \in {"lines", "cleanup"} =>
       /\ Len(ic_image) = IC - IC_INIT_VALUE
       /\ Len(data_img) = DC

\* An instruction and a directive were both rejected after their first word.
C11_Witness ==
    /\ pc = "lines"
    /\ {"AS023", "AS314"} \subseteq reported
    /\ Len(ic_image) = 1 /\ IC = IC_INIT_VALUE + 1
    /\ Len(data_img) = 1 /\ DC = 1

(***************************************************************************)
(* C12: in every state of pass one no two entries of the symbol table have *)
(* the same name; a second definition of a label is reported as a          *)
(* duplicate and not inserted.                                             *)
(***************************************************************************)
C12_UniqueSymbolNames ==
    \A a \in DOMAIN symbol_table : \A b \in DOMAIN symbol_table :
       a # b => symbol_table[a].key # symbol_table[b].key

\* A second definition was met and reported; the table holds the first one.
C12_Witness ==
    /\ pc = "lines"
    /\ "AS020" \in reported
    /\ Len(symbol_table) = 1

(***************************************************************************)
(* C13: stems are processed independently; in particular a stem for which  *)
(* nothing was reported up to the end of its source runs the second pass,  *)
(* whatever was reported for the stems before it.                          *)
(***************************************************************************)
C13_StemsIndependent ==
    [][(pc = "lines" /\ pc' = "cleanup" /\ reported = {} /\ ~had_error)
          => (sp_run' /\ reported' \subseteq SecondPassCodes)]_vars

(***************************************************************************)
(* Vocabulary of the claims about one instruction line: the step that      *)
(* reads it, what the line says, and the tables of the specification.      *)
(***************************************************************************)
\* One iteration of the line loop of first_pass
LineStep == pc = "lines" /\ pc' = "lines" /\ line_no' = line_no + 1

IsInstrLine(l) == StrLower(l.tok) \in DOMAIN InstructionNames

\* No diagnostic of validate_modes_for_opcode in this step
ModesAccepted == g_diag'["opmodes"] = g_diag["opmodes"]

\* No diagnostic of the encoder or of a function it calls in this step
EncoderAccepted ==
    \A f \in {"opmodes", "words", "functions"} : g_diag'[f] = g_diag[f]

Mnemonics ==
    <<"mov", "cmp", "add", "sub", "not", "clr", "lea", "inc", "dec", "jmp",
      "bne", "red", "prn", "jsr", "rts", "stop">>

\* mov = 0 ... stop = 15
OpcodeNumber(tok) ==
    (CHOOSE k \in DOMAIN Mnemonics : Mnemonics[k] = StrLower(tok)) - 1

\* The mode letter of an operand: I, D, M, R, or "-" for an absent operand
ModeLetter(operand) ==
    CASE operand.kind \in {"imm", "immbad"} -> "I"
      [] operand.kind = "direct"            -> "D"
      [] operand.kind \in {"mat", "matbad"} -> "M"
      [] operand.kind = "reg"               -> "R"
      [] OTHER                              -> "-"

SourceOf(l) == IF l.n = 2 THEN l.src ELSE NoOperand

DestinationOf(l) ==
    IF l.n = 2 THEN l.dst ELSE IF l.n = 1 THEN l.src ELSE NoOperand

ModeBits(letter) ==
    CASE letter = "I" -> 0 [] letter = "D" -> 1 [] letter = "M" -> 2
      [] letter = "R" -> 3 [] OTHER -> 0

ModeWords(letter) ==
    CASE letter \in {"I", "D", "R"} -> 1 [] letter = "M" -> 2 [] OTHER -> 0

\* The opcode rule table of the specification
TableRow(ops, src, dst) == [ops |-> ops, src |-> src, dst |-> dst]

RuleTable(m) ==
    CASE m = "mov" -> TableRow(2, {"I", "D", "M", "R"}, {"D", "M", "R"})
      [] m = "cmp" -> TableRow(2, {"I", "D", "M", "R"}, {"I", "D", "M", "R"})
      [] m \in {"add", "sub"} -> TableRow(2, {"D", "M", "R"}, {"D", "M", "R"})
      [] m = "lea" -> TableRow(2, {"D", "M"}, {"D", "M", "R"})
      [] m \in {"clr", "not", "inc", "dec", "jmp", "bne", "jsr", "red"} ->
                      TableRow(1, {}, {"D", "M", "R"})
      [] m = "prn" -> TableRow(1, {}, {"I", "D", "M", "R"})
      [] m \in {"rts", "stop"} -> TableRow(0, {}, {})

TableAllows(l) ==
    /\ l.n = RuleTable(StrLower(l.tok)).ops
    /\ l.n = 2 => ModeLetter(l.src) \in RuleTable(StrLower(l.tok)).src
    /\ l.n >= 1 =>
          ModeLetter(DestinationOf(l)) \in RuleTable(StrLower(l.tok)).dst

\* The words the step appended to the code image
NewWords == SubSeq(ic_image', Len(ic_image) + 1, Len(ic_image'))

WordsOf(l) ==
    IF ModeLetter(SourceOf(l)) = "R" /\ ModeLetter(DestinationOf(l)) = "R"
    THEN 2
    ELSE 1 + ModeWords(ModeLetter(SourceOf(l)))
           + ModeWords(ModeLetter(DestinationOf(l)))

(***************************************************************************)
(* C14: the first word of every accepted instruction has the payload       *)
(* (op << 4) | (bits(s) << 2) | bits(d), with bits(Immediate) = 0,         *)
(* bits(Direct) = 1, bits(Matrix) = 2, bits(Register) = 3 and 0 for an     *)
(* absent operand, and ARE = Absolute.                                     *)
(***************************************************************************)
C14_FirstWord ==
    [][(LineStep /\ IsInstrLine(line_buffer') /\ EncoderAccepted) =>
          /\ Len(NewWords) >= 1
          /\ NewWords[1].value =
                OpcodeNumber(line_buffer'.tok) * 16
                + ModeBits(ModeLetter(SourceOf(line_buffer'))) * 4
                + ModeBits(ModeLetter(DestinationOf(line_buffer')))
          /\ NewWords[1].are = ARE_ABS]_vars

\* "lea X[r1][r2], r3" was encoded: 6 * 16 + 2 * 4 + 3
C14_Witness ==
    /\ pc = "lines"
    /\ line_buffer = Instr2(NoLabel, "lea", Mat("X", 1, 2), Reg(3))
    /\ g_diag["opmodes"] = 0 /\ g_diag["words"] = 0
    /\ Len(ic_image) = 4
    /\ ic_image[1].value = 107

(***************************************************************************)
(* C15: validate_modes_for_opcode accepts an instruction exactly when the  *)
(* opcode rule table allows it: the operand count is the table's, a single *)
(* operand is the destination, and the mode of each operand present is in  *)
(* the allowed set of its slot; anything else is reported as an error.     *)
(***************************************************************************)
C15_RuleTable ==
    [][(LineStep /\ IsInstrLine(line_buffer')) =>
          (ModesAccepted <=> TableAllows(line_buffer'))]_vars

\* "lea #5, r3" was rejected for its source mode and emitted nothing.
C15_Witness ==
    /\ pc = "lines"
    /\ line_buffer = Instr2(NoLabel, "lea", Imm(5), Reg(3))
    /\ "AS022" \in reported
    /\ g_diag["opmodes"] = 1
    /\ ic_image = <<>>

(***************************************************************************)
(* C16: an instruction encoded without error advances IC by, and appends   *)
(* to the code image, 1 + w(source) + w(destination) words, with           *)
(* w(Immediate) = w(Direct) = w(Register) = 1, w(Matrix) = 2 and           *)
(* w(absent) = 0; when both operands are registers one extra word is       *)
(* emitted, with payload (source register << 4) | destination register and *)
(* ARE = Absolute.                                                         *)
(***************************************************************************)
C16_WordCount ==
    [][(LineStep /\ IsInstrLine(line_buffer') /\ EncoderAccepted) =>
          /\ IC' - IC = WordsOf(line_buffer')
          /\ Len(NewWords) = WordsOf(line_buffer')
          /\ (ModeLetter(SourceOf(line_buffer')) = "R"
              /\ ModeLetter(DestinationOf(line_buffer')) = "R") =>
                 /\ NewWords[2].value =
                       line_buffer'.src.ra * 16 + line_buffer'.dst.ra
                 /\ NewWords[2].are = ARE_ABS]_vars

\* "mov r3, r5" was encoded in two words, the second being 3 * 16 + 5.
C16_Witness ==
    /\ pc = "lines"
    /\ line_buffer = Instr2(NoLabel, "mov", Reg(3), Reg(5))
    /\ IC = IC_INIT_VALUE + 2
    /\ Len(ic_image) = 2
    /\ ic_image[2].value = 53

(***************************************************************************)
(* C17, as stated: every instruction the encoder accepts emits a first     *)
(* word and at most 2 more, between 1 and 3 words in all.                  *)
(***************************************************************************)
C17_AtMostThreeWords ==
    [][(LineStep /\ IsInstrLine(line_buffer') /\ EncoderAccepted) =>
          (Len(NewWords) >= 1 /\ Len(NewWords) <= 3)]_vars

(***************************************************************************)
(* C17, amended: every instruction the encoder accepts emits a first word  *)
(* and at most 4 more (two words for each Matrix operand), between 1 and 5 *)
(* words in all.                                                           *)
(***************************************************************************)
C17_AtMostFiveWords ==
    [][(LineStep /\ IsInstrLine(line_buffer') /\ EncoderAccepted) =>
          (Len(NewWords) >= 1 /\ Len(NewWords) <= 5
           /\ IC' - IC = Len(NewWords))]_vars

\* "mov X[r1][r2], X[r1][r2]" was encoded in five words.
C17_Witness ==
    /\ pc = "lines"
    /\ line_buffer = Instr2(NoLabel, "mov", Mat("X", 1, 2), Mat("X", 1, 2))
    /\ g_diag["opmodes"] = 0 /\ g_diag["words"] = 0
    /\ IC = IC_INIT_VALUE + 5
    /\ Len(ic_image) = 5

(***************************************************************************)
(* C18: a statement whose mnemonic or directive keyword is written in      *)
(* upper or mixed case is assembled exactly like the same statement with   *)
(* the keyword in lower case: same words, same counters, same diagnostics. *)
(***************************************************************************)
LowerKeyword(l) == [l EXCEPT !.tok = StrLower(@)]

\* The step left the images, the counters, the tables and the diagnostics
\* as r has them.
SameOutcome(r) ==
    /\ ic_image' = r.ic_image /\ data_img' = r.data_img
    /\ IC' = r.IC /\ DC' = r.DC
    /\ symbol_table' = r.symbol_table
    /\ ent_list' = r.ent_list /\ ext_list' = r.ext_list
    /\ g_diag' = r.g_diag /\ reported' = r.reported
    /\ had_error' = r.had_error

C18_KeywordCase ==
    [][LineStep =>
          SameOutcome(first_pass_line(Cur, LowerKeyword(line_buffer')))]_vars

(***************************************************************************)
(* Vocabulary of the claims about one line of <stem>.as.                   *)
(***************************************************************************)
\* One iteration of the line loop of process_macros
MacroStep ==
    pc = "macro_lines" /\ pc' = "macro_lines" /\ line_no' = line_no + 1

\* No diagnostic of process_macros in this step
MacroLineAccepted == g_diag'["process_macros"] = g_diag["process_macros"]

\* The macros of the table that have the name
MacrosNamed(name) ==
    {k \in DOMAIN macro_table : macro_table[k].name = name}

(***************************************************************************)
(* C19: process_macros reports MC001 for a line exactly when the line has  *)
(* more than 80 characters before its newline, and after an overlong line  *)
(* the rest of the line is discarded, so that the next read starts at the  *)
(* next source line.                                                       *)
(***************************************************************************)
C19_LineTooLong ==
    [][(MacroStep /\ "MC001" \notin reported) =>
          /\ ("MC001" \in reported') <=> (Len(as_line') > MAX_LINE_LEN - 1)
          /\ fin' = ""]_vars

ObHeader(ic_final, dc_final) ==
    to_base4_letters_header(ic_final) \o "\t"
    \o to_base4_letters_header(dc_final)

ObCodeLine(w) ==
    to_base4_letters(w.address, 4) \o " "
    \o to_base4_letters(w.value * 4 + w.are, 5)

ObDataLine(w) ==
    to_base4_letters(w.address, 4) \o " "
    \o to_base4_letters(w.value % 1024, 5)

C21_ObLayout ==
    (pc = "cleanup" /\ ob_file # NoFile) =>
       ob_file = <<ObHeader(IC, DC)>>
                 \o [k \in DOMAIN ic_image |-> ObCodeLine(ic_image[k])]
                 \o [k \in DOMAIN data_img |-> ObDataLine(data_img[k])]

(***************************************************************************)
(* Vocabulary of the claims about the end of the first pass.               *)
(***************************************************************************)
\* The step from the end of <stem>.am to main's teardown: the second pass
\* runs in it when the first pass was clean.
EndStep == pc = "lines" /\ pc' = "cleanup"

\* "L: stop" with L letter-led, alphanumeric and at most 31 characters long
IsLabelledStop(l) ==
    /\ l.label.colon
    /\ is_alpha_num_label(l.label.text)
    /\ Len(l.label.text) <= 31
    /\ l.tok = "stop" /\ l.n = 0

(***************************************************************************)
(* C22: a program that is the single line "L: stop", L being letter-led,   *)
(* alphanumeric and at most 31 characters long (a label that is a mnemonic *)
(* up to letter case, such as STOP, included), assembles without error:    *)
(* the symbol L = 100 of kind CODE, one code word at 100 with payload 0xF0 *)
(* and ARE Absolute, DC = 0, an .ob file and no .ent or .ext file.         *)
(* The program is the one of the first stem, and the output directory is   *)
(* writable.                                                               *)
(***************************************************************************)
C22_LabelledStop ==
    [][(EndStep /\ i = 1 /\ line_no = 1 /\ IsLabelledStop(line_buffer)
        /\ "AS_FILE_OPEN" \notin reported') =>
          /\ reported' = {}
          /\ symbol_table' = <<[key |-> line_buffer.label.text, value |-> 100,
                                type |-> CODE_SYMBOL]>>
          /\ ic_image' = <<[address |-> 100, value |-> 240, are |-> ARE_ABS,
                            label |-> ""]>>
          /\ DC' = 0
          /\ ob_file' # NoFile
          /\ ent_file' = NoFile /\ ext_file' = NoFile]_vars

(***************************************************************************)
(* C23: from an accepted "mcro <name>" line to the next line whose first   *)
(* token is "mcroend", process_macros is inside the definition: each line  *)
(* in between is appended, trimmed, to the body of that macro, in source   *)
(* order, and neither these lines nor the opening and closing lines are    *)
(* written to the output; if the input ends inside the definition, the     *)
(* unterminated-macro error is reported and process_macros fails.          *)
(***************************************************************************)
C23_InsideMacro ==
    [][/\ (MacroStep /\ cur = 0 /\ MacroLineAccepted
           /\ first_token(as_line') = "mcro") =>
             /\ cur' = Len(macro_table) + 1
             /\ macro_table' =
                   Append(macro_table,
                          [name |-> get_macro_name(rtrim(ltrim(as_line'))),
                           body |-> <<>>])
             /\ fout' = fout
       /\ (MacroStep /\ cur # 0 /\ first_token(as_line') # "mcroend") =>
             /\ cur' = cur
             /\ fout' = fout
             /\ MacroLineAccepted =>
                   macro_table' =
                      [macro_table EXCEPT
                          ![cur].body = Append(@, rtrim(ltrim(as_line')))]
       /\ (MacroStep /\ cur # 0 /\ first_token(as_line') = "mcroend") =>
             /\ cur' = 0
             /\ fout' = fout
             /\ macro_table' = macro_table
       /\ (pc = "macro_lines" /\ pc' # "macro_lines" /\ cur # 0) =>
             /\ "MC_UNTERMINATED_MACRO" \in reported'
             /\ macro_rc' # 0]_vars

\* "mcro m", "  inc r1  ", "m": two lines are in the body, in order, the
\* second not expanded, and nothing was written.
C23_Witness ==
    /\ pc = "macro_lines"
    /\ line_no = 3
    /\ cur = 1
    /\ macro_table = <<[name |-> "m", body |-> <<"inc r1", "m">>]>>
    /\ fout = <<>>

(***************************************************************************)
(* Vocabulary of the claims about the operand text of an instruction.      *)
(***************************************************************************)
\* Position k of p lies after a '[' that no ']' has closed yet
InsideBrackets(p, k) ==
    \E a \in 1..(k - 1) :
       /\ CharAt(p, a) = "["
       /\ \A j \in (a + 1)..(k - 1) : CharAt(p, j) # "]"

\* The commas of p outside all brackets
TopCommas(p) ==
    {k \in 1..Len(p) : CharAt(p, k) = "," /\ ~InsideBrackets(p, k)}

\* Nothing but blanks between the comma at k and the comma or the end of
\* the text next to it, on the left or on the right
EmptySide(p, k) ==
    \/ \E a \in (TopCommas(p) \cup {0}) :
          a < k /\ \A j \in (a + 1)..(k - 1) : isspace(CharAt(p, j))
    \/ \E b \in (TopCommas(p) \cup {Len(p) + 1}) :
          b > k /\ \A j \in (k + 1)..(b - 1) : isspace(CharAt(p, j))

(***************************************************************************)
(* C24: split_operands never cuts the operand text at a comma between the  *)
(* '[' and ']' of a matrix operand: whenever it delivers a source and a    *)
(* destination, the cut is at a comma outside all brackets.                *)
(***************************************************************************)
C24_CutOutsideBrackets ==
    [][(LineStep /\ line_buffer'.text # "" /\ line_buffer'.n = OPS_TWO) =>
          /\ line_buffer'.cut \in TopCommas(OperandTail(line_buffer'.text))]_vars

(***************************************************************************)
(* C25: for every mnemonic, rts and stop included, an operand text with    *)
(* more than one comma outside brackets, or with a comma that has an empty *)
(* operand on one side, has an error reported for its line.                *)
(***************************************************************************)
C25_BadOperandTextReported ==
    [][(LineStep /\ line_buffer'.text # "" /\ IsInstrLine(line_buffer')
        /\ \/ Cardinality(TopCommas(OperandTail(line_buffer'.text))) > 1
           \/ \E k \in TopCommas(OperandTail(line_buffer'.text)) :
                 EmptySide(OperandTail(line_buffer'.text), k)) =>
          g_diag' # g_diag]_vars

(***************************************************************************)
(* C26: the size check of the first pass reports an error only when        *)
(* (IC - 100) + DC exceeds 255; a program of at most 255 code and data     *)
(* words gets no size-limit error and is passed on to the second pass.     *)
(***************************************************************************)
C26_SizeErrorOnlyAbove255 ==
    /\ (pc \in {"lines", "cleanup"} /\ "AS_SUM_GE_LIMIT" \in reported) =>
          WordsTotal > OB_WORD_LIMIT
    /\ (pc = "cleanup" /\ i = 1 /\ WordsTotal <= OB_WORD_LIMIT
        /\ reported \subseteq
              ({"AS_SUM_GE_LIMIT", "AS102"} \cup SecondPassCodes)) => sp_run

(***************************************************************************)
(* C27: in resolve_labels_in_place a code word whose label reference is    *)
(* found neither in the symbol table nor in the extern list keeps its      *)
(* payload and its ARE as they were before the call, whatever the payload  *)
(* was (no zero is substituted).                                           *)
(***************************************************************************)
C27_UnresolvedWordUnchanged ==
    [][(EndStep /\ sp_run') =>
          \A k \in DOMAIN ic_image :
             (/\ ic_image[k].label # ""
              /\ ~find_symbol(symbol_table, ic_image[k].label)
              /\ ExtIndex(ext_list, ic_image[k].label) = 0) =>
                /\ ic_image'[k].value = ic_image[k].value
                /\ ic_image'[k].are = ic_image[k].are]_vars

(***************************************************************************)
(* C28: if process_commands_words reports an error for an instruction line *)
(* (operand count, addressing mode, immediate literal, matrix operand),    *)
(* the line appends no word to the code image and leaves IC unchanged.     *)
(***************************************************************************)
C28_RejectedLineEmitsNothing ==
    [][(LineStep /\ IsInstrLine(line_buffer') /\ ~EncoderAccepted) =>
          (ic_image' = ic_image /\ IC' = IC)]_vars

(***************************************************************************)
(* C29: after pass one every CODE symbol has the address of the first code *)
(* word the instruction on its line emitted, and every DATA symbol has the *)
(* address stored in the first data word the directive on its line         *)
(* emitted, whenever that statement emitted a word: the symbol is recorded *)
(* with these values by the step that reads its line, and no later step of *)
(* the pass changes a recorded symbol.                                     *)
(***************************************************************************)
\* The data words the step appended to the data image
NewData == SubSeq(data_img', Len(data_img) + 1, Len(data_img'))

C29_SymbolAtFirstWord ==
    [][/\ LineStep =>
            /\ Len(symbol_table') >= Len(symbol_table)
            /\ \A k \in DOMAIN symbol_table :
                  symbol_table'[k + Len(symbol_table') - Len(symbol_table)]
                     = symbol_table[k]
            /\ Len(symbol_table') > Len(symbol_table) =>
                  /\ Len(symbol_table') = Len(symbol_table) + 1
                  /\ symbol_table'[1].key = line_buffer'.label.text
                  /\ symbol_table'[1].type \in {CODE_SYMBOL, DATA_SYMBOL}
                  /\ (symbol_table'[1].type = CODE_SYMBOL
                      /\ Len(NewWords) >= 1) =>
                        symbol_table'[1].value = NewWords[1].address
                  /\ (symbol_table'[1].type = DATA_SYMBOL
                      /\ Len(NewData) >= 1) =>
                        symbol_table'[1].value = NewData[1].address
       /\ EndStep => symbol_table' = symbol_table]_vars

\* "stop", "X: .data 1": X is recorded with 101, the address stored in the
\* data word of its line.
C29_Witness ==
    /\ pc = "lines"
    /\ line_no = 2
    /\ line_buffer = L_Xdata
    /\ symbol_table = <<[key |-> "X", value |-> 101, type |-> DATA_SYMBOL]>>
    /\ Len(ic_image) = 1
    /\ Len(data_img) = 1 /\ data_img[1].address = 101

(***************************************************************************)
(* C30: a label of 31 characters behaves like a shorter one.  The label    *)
(* field of the machine word emitted for a Direct operand or for the base  *)
(* of a Matrix operand, and the label field of an entry record, keep the   *)
(* full name; the second pass resolves each word whose reference is a      *)
(* defined symbol to Relocatable with the symbol's value, and gives each   *)
(* entry record that names a defined symbol the symbol's value.            *)
(***************************************************************************)
\* The names the operands of the line refer to
ReferencedNames(l) ==
    {o.name : o \in {x \in {SourceOf(l), DestinationOf(l)} :
                        x.kind \in {"direct", "mat"}}}

C30_LongLabel ==
    [][/\ (LineStep /\ IsInstrLine(line_buffer') /\ EncoderAccepted) =>
             \A nm \in ReferencedNames(line_buffer') :
                \E k \in DOMAIN NewWords : NewWords[k].label = nm
       /\ (LineStep /\ StrLower(line_buffer'.tok) = ".entry"
           /\ g_diag' = g_diag) =>
             ent_list' = Append(ent_list, [labels |-> line_buffer'.arg,
                                           addr |-> 0])
       /\ (EndStep /\ sp_run') =>
             /\ \A k \in DOMAIN ic_image' :
                   (/\ ic_image'[k].label # ""
                    /\ find_symbol(symbol_table, ic_image'[k].label)) =>
                      /\ ic_image'[k].are = ARE_REL
                      /\ ic_image'[k].value = SymValue(ic_image'[k].label)
             /\ \A e \in DOMAIN ent_list' :
                   find_symbol(symbol_table, ent_list'[e].labels) =>
                      ent_list'[e].addr = SymValue(ent_list'[e].labels)]_vars

====
